---------------------------- MODULE Spec2Model ----------------------------
(***************************************************************************)
(* A model of the NMEA 2000 node of finnboeger/NMEA2000 (python):          *)
(*   - the CAN identifier codec            (n2k/can_tools.py)              *)
(*   - the 64 bit NAME of a device         (n2k/device_information.py)     *)
(*   - the receive path of the node with its Fast Packet reassembly        *)
(*                                         (n2k/node.py, n2k/n2k.py)       *)
(* Python integers are unbounded; the model keeps every integer below 2^31 *)
(* and carries the 64 bit NAME as a vector of 64 bits.                     *)
(***************************************************************************)
EXTENDS Integers, Sequences, FiniteSets, TLC

VARIABLES
    \* --- CAN identifier codec -------------------------------------------
    can_in,              \* the identifier handed to can_id_to_n2k, with the fields it was built from
    can_hdr,             \* <<>> or <<the MsgHeader can_id_to_n2k returned>>
    can_back,            \* <<>> or <<what n2k_id_to_can returned for that header>>
    enc,                 \* <<>> or <<a direct call of n2k_id_to_can: its arguments and its result>>
    \* --- DeviceInformation ----------------------------------------------
    device_information,  \* the seven fields of the DeviceInformation object
    name_reg,            \* <<>> or <<the value last read from the name property>>
    name_src,            \* <<>> or <<the fields the object had when name_reg was read>>
    name_op,             \* the last operation on the object: "init", "fields", "get", "set"
    \* --- Node -----------------------------------------------------------
    buf,                 \* Node.can_msg_buffer: the reassembly slots
    n2k_source,          \* Node.n2k_source
    sent,                \* the frames the node has put on the bus
    hist,                \* one record per on_message_received call, oldest first
    now,                 \* millis(): the clock, in ms
    stamp,               \* per slot, the time the slot last took a frame
    \* --- Message --------------------------------------------------------
    mobj,                \* a Message object: its attributes
    mres,                \* the last operation on it and what the operation returned or raised
    \* --- Node: the internal device, the handlers; helper functions -------
    node,                \* the other attributes of the Node object
    res                  \* the last call of a Node method or of a function, and what it did

canVars  == <<can_in, can_hdr, can_back, enc>>
nameVars == <<device_information, name_reg, name_src, name_op>>
nodeVars == <<buf, n2k_source, sent, hist, now, stamp>>
msgVars  == <<mobj, mres>>
devVars  == <<node, res>>
vars     == <<can_in, can_hdr, can_back, enc,
              device_information, name_reg, name_src, name_op,
              buf, n2k_source, sent, hist, now, stamp, mobj, mres, node, res>>

---------------------------------------------------------------------------
(* Python's integer operators on non-negative integers below 2^31.         *)

\* x >> n
Shr(x, n) == x \div (2 ^ n)

\* x << n
Shl(x, n) == x * (2 ^ n)

\* x & y
RECURSIVE BitAnd(_, _)
BitAnd(x, y) ==
    IF x = 0 \/ y = 0 THEN 0
    ELSE (x % 2) * (y % 2) + 2 * BitAnd(x \div 2, y \div 2)

\* x | y
RECURSIVE BitOr(_, _)
BitOr(x, y) ==
    IF x = 0 THEN y
    ELSE IF y = 0 THEN x
    ELSE (IF x % 2 = 1 \/ y % 2 = 1 THEN 1 ELSE 0) + 2 * BitOr(x \div 2, y \div 2)

\* x & 0xffffffff: the identity on the integers of the model, all below 2^31
Mask32(x) == x

---------------------------------------------------------------------------
(* n2k/can_tools.py                                                        *)

\* MsgHeader(source, priority, destination, pgn)
MsgHeader(src, prio, dst, pgn) ==
    [source |-> src, priority |-> prio, destination |-> dst, pgn |-> pgn]

\* a faulty variant of can_id_to_n2k: the PDU1 test reads "<=" for "<"
can_id_to_n2k_le(can_id) ==
    LET can_id_pf == BitAnd(Shr(can_id, 16), 255)
        can_id_ps == BitAnd(Shr(can_id, 8), 255)
        can_id_dp == BitAnd(Shr(can_id, 24), 1)
        src  == BitAnd(Shr(can_id, 0), 255)
        prio == BitAnd(Shr(can_id, 26), 7)
    IN  IF can_id_pf <= 240
        THEN MsgHeader(src, prio, can_id_ps,
                       BitOr(Shl(can_id_dp, 16), Shl(can_id_pf, 8)))
        ELSE MsgHeader(src, prio, 255,
                       BitOr(BitOr(Shl(can_id_dp, 16), Shl(can_id_pf, 8)), can_id_ps))

can_id_to_n2k(can_id) ==
    LET can_id_pf == BitAnd(Shr(can_id, 16), 255)
        can_id_ps == BitAnd(Shr(can_id, 8), 255)
        can_id_dp == BitAnd(Shr(can_id, 24), 1)
        src  == BitAnd(Shr(can_id, 0), 255)
        prio == BitAnd(Shr(can_id, 26), 7)
    IN  IF can_id_pf < 240
        THEN \* PDU1 format, the PS contains the destination address
             MsgHeader(src, prio, can_id_ps,
                       BitOr(Shl(can_id_dp, 16), Shl(can_id_pf, 8)))
        ELSE \* PDU2 format, the destination is implied global
             MsgHeader(src, prio, 255,
                       BitOr(BitOr(Shl(can_id_dp, 16), Shl(can_id_pf, 8)), can_id_ps))

\* What a call of n2k_id_to_can gives back: the function has no raise
\* statement, so error is always "none" and value is the returned integer.
Returned(v) == [error |-> "none", value |-> v]

\* a faulty variant of n2k_id_to_can: the test of the PGN's low byte is lost
n2k_id_to_can_nocheck(priority, pgn, source, destination) ==
    LET prio == BitAnd(priority, 255)
        p    == Mask32(pgn)
        s    == Mask32(source)
        d    == BitAnd(destination, 255)
        can_id_pf == BitAnd(Shr(p, 8), 255)
    IN  IF can_id_pf < 240
        THEN Returned(BitOr(BitOr(BitOr(Shl(BitAnd(prio, 7), 26), Shl(p, 8)), Shl(d, 8)), s))
        ELSE Returned(BitOr(BitOr(Shl(BitAnd(prio, 7), 26), Shl(p, 8)), s))

\* a faulty variant of n2k_id_to_can: the PDU2 branch encodes the destination too
n2k_id_to_can_dst(priority, pgn, source, destination) ==
    LET prio == BitAnd(priority, 255)
        p    == Mask32(pgn)
        s    == Mask32(source)
        d    == BitAnd(destination, 255)
        can_id_pf == BitAnd(Shr(p, 8), 255)
    IN  IF can_id_pf < 240 /\ BitAnd(p, 255) # 0
        THEN Returned(0)
        ELSE Returned(BitOr(BitOr(BitOr(Shl(BitAnd(prio, 7), 26), Shl(p, 8)), Shl(d, 8)), s))

n2k_id_to_can(priority, pgn, source, destination) ==
    LET prio == BitAnd(priority, 255)
        p    == Mask32(pgn)
        s    == Mask32(source)
        d    == BitAnd(destination, 255)
        can_id_pf == BitAnd(Shr(p, 8), 255)
    IN  IF can_id_pf < 240
        THEN \* PDU1 format
             IF BitAnd(p, 255) # 0
             THEN Returned(0)
             ELSE Returned(BitOr(BitOr(BitOr(Shl(BitAnd(prio, 7), 26), Shl(p, 8)), Shl(d, 8)), s))
        ELSE \* PDU2 format
             Returned(BitOr(BitOr(Shl(BitAnd(prio, 7), 26), Shl(p, 8)), s))

---------------------------------------------------------------------------
(* 64 bit values: a vector of bits, bit 0 the least significant.           *)

Bit64 == 0..63

\* the 64 bit vector of an integer below 2^31
BvOfInt(x) == [i \in Bit64 |-> IF i < 31 THEN (x \div (2 ^ i)) % 2 ELSE 0]

\* v << n, v >> n, a | b, a & b on results that fit 64 bits
BvShl(v, n) == [i \in Bit64 |-> IF i >= n THEN v[i - n] ELSE 0]
BvShr(v, n) == [i \in Bit64 |-> IF i + n <= 63 THEN v[i + n] ELSE 0]
BvOr(a, b)  == [i \in Bit64 |-> IF a[i] = 1 \/ b[i] = 1 THEN 1 ELSE 0]
BvAnd(a, b) == [i \in Bit64 |-> a[i] * b[i]]

\* the integer of a vector whose bits 31..63 are zero
RECURSIVE BvSum(_, _)
BvSum(v, i) == IF i > 30 THEN 0 ELSE v[i] * (2 ^ i) + BvSum(v, i + 1)
BvToInt(v) == BvSum(v, 0)

---------------------------------------------------------------------------
(* n2k/device_information.py                                               *)

\* a faulty variant of the name getter: device_class is masked with 0x7f (the
\* "1 reserved, 7 device class" layout of the docstring)
name_class7(d) ==
    BvOr(BvOr(BvOr(BvOr(BvOr(BvOr(BvOr(
        BvShl(BvOfInt(BitAnd(d.unique_number, 2097151)), 0),
        BvShl(BvOfInt(BitAnd(d.manufacturer_code, 2047)), 21)),
        BvShl(BvOfInt(BitAnd(d.device_instance, 255)), 32)),
        BvShl(BvOfInt(BitAnd(d.device_function, 255)), 40)),
        BvShl(BvOfInt(BitAnd(d.device_class, 127)), 48)),
        BvShl(BvOfInt(BitAnd(d.system_instance, 15)), 56)),
        BvShl(BvOfInt(BitAnd(d.industry_group, 7)), 60)),
        BvShl(BvOfInt(1), 63))

\* DeviceInformation.name (getter)
name(d) ==
    BvOr(BvOr(BvOr(BvOr(BvOr(BvOr(BvOr(
        BvShl(BvOfInt(BitAnd(d.unique_number, 2097151)), 0),
        BvShl(BvOfInt(BitAnd(d.manufacturer_code, 2047)), 21)),
        BvShl(BvOfInt(BitAnd(d.device_instance, 255)), 32)),
        BvShl(BvOfInt(BitAnd(d.device_function, 255)), 40)),
        BvShl(BvOfInt(BitAnd(d.device_class, 255)), 48)),
        BvShl(BvOfInt(BitAnd(d.system_instance, 15)), 56)),
        BvShl(BvOfInt(BitAnd(d.industry_group, 7)), 60)),
        BvShl(BvOfInt(1), 63))

\* DeviceInformation.name (setter): the fields after "self.name = value"
name_setter(value) ==
    [unique_number     |-> BvToInt(BvAnd(value, BvOfInt(2097151))),
     manufacturer_code |-> BvToInt(BvAnd(BvShr(value, 21), BvOfInt(2047))),
     device_instance   |-> BvToInt(BvAnd(BvShr(value, 32), BvOfInt(255))),
     device_function   |-> BvToInt(BvAnd(BvShr(value, 40), BvOfInt(255))),
     device_class      |-> BvToInt(BvAnd(BvShr(value, 48), BvOfInt(255))),
     system_instance   |-> BvToInt(BvAnd(BvShr(value, 56), BvOfInt(15))),
     industry_group    |-> BvToInt(BvAnd(BvShr(value, 60), BvOfInt(7)))]

---------------------------------------------------------------------------
(* n2k/n2k.py                                                              *)

is_fast_packet_first_frame(byte) == BitAnd(byte, 31) = 0

is_single_frame_system_message(pgn) ==
    pgn \in {59392, 60160, 60416, 59904, 60928}

is_fast_packet_system_message(pgn) == pgn = 65240 \/ pgn = 126208

is_default_single_frame_message(pgn) ==
    pgn \in {126992, 126993, 127245, 127250, 127251, 127257, 127488, 127493,
             127501, 127505, 127508, 128259, 128267, 129025, 129026, 129283,
             130306, 130310, 130312, 130313, 130314, 130316, 130576}

is_mandatory_fast_packet_message(pgn) == pgn \in {126464, 126996, 126998}

is_default_fast_packet_message(pgn) ==
    pgn \in {126983, 126984, 126985, 126986, 126987, 126988, 127233, 127237,
             127489, 127496, 127497, 127498, 127503, 127504, 127506, 127507,
             127509, 127510, 127511, 127512, 127513, 127514, 128275, 128520,
             129029, 129038, 129039, 129040, 129041, 129044, 129045, 129284,
             129285, 129301, 129302, 129538, 129540, 129541, 129542, 129545,
             129547, 129549, 129551, 129556, 129792, 129793, 129794, 129795,
             129796, 129797, 129798, 129799, 129800, 129801, 129802, 129803,
             129804, 129805, 129806, 129807, 129808, 129809, 129810, 129811,
             129812, 129813, 130052, 130053, 130054, 130060, 130061, 130064,
             130065, 130066, 130067, 130068, 130069, 130070, 130071, 130072,
             130073, 130074, 130320, 130321, 130322, 130323, 130324, 130567,
             130577, 130578}

---------------------------------------------------------------------------
(* n2k/node.py: Node._check_known_message.  The two caller-supplied lists  *)
(* are sets here; None (the class default) is the empty set, for which     *)
(* "x is not None and pgn in x" is false as well.                          *)

Known(known, system, fast) ==
    [known_message |-> known, system_message |-> system, fast_packet |-> fast]

\* a faulty variant of _check_known_message: the caller's Fast Packet list
\* is looked up before the built-in lists
_check_known_message_custom_first(pgn, custom_single_frame_messages, custom_fast_packet_messages) ==
    IF pgn = 0 THEN Known(FALSE, FALSE, FALSE)
    ELSE IF pgn \in custom_fast_packet_messages THEN Known(TRUE, FALSE, TRUE)
    ELSE IF is_default_single_frame_message(pgn) THEN Known(TRUE, FALSE, FALSE)
    ELSE IF is_mandatory_fast_packet_message(pgn) THEN Known(TRUE, FALSE, TRUE)
    ELSE IF is_default_fast_packet_message(pgn) THEN Known(TRUE, FALSE, TRUE)
    ELSE IF is_single_frame_system_message(pgn) \/ is_fast_packet_system_message(pgn)
         THEN Known(TRUE, TRUE, is_fast_packet_system_message(pgn))
    ELSE IF pgn \in custom_single_frame_messages THEN Known(TRUE, FALSE, FALSE)
    ELSE Known(FALSE, FALSE, FALSE)

_check_known_message(pgn, custom_single_frame_messages, custom_fast_packet_messages) ==
    IF pgn = 0 THEN Known(FALSE, FALSE, FALSE)
    ELSE IF is_default_single_frame_message(pgn) THEN Known(TRUE, FALSE, FALSE)
    ELSE IF is_mandatory_fast_packet_message(pgn) THEN Known(TRUE, FALSE, TRUE)
    ELSE IF is_default_fast_packet_message(pgn) THEN Known(TRUE, FALSE, TRUE)
    ELSE IF is_single_frame_system_message(pgn) \/ is_fast_packet_system_message(pgn)
         THEN Known(TRUE, TRUE, is_fast_packet_system_message(pgn))
    ELSE IF pgn \in custom_single_frame_messages THEN Known(TRUE, FALSE, FALSE)
    ELSE IF pgn \in custom_fast_packet_messages THEN Known(TRUE, FALSE, TRUE)
    ELSE Known(FALSE, FALSE, FALSE)

---------------------------------------------------------------------------
(* n2k/message.py, and the reassembly buffer (n2k/can_message.py,          *)
(* n2k/can_message_buffer.py: N2kCANMessage, N2kCANMessageBuffer).         *)

max_data_len == 223

\* Message(): source 15, priority 6, pgn 0, destination 255, no payload
EmptyMsg ==
    [priority |-> 6, pgn |-> 0, source |-> 15, destination |-> 255,
     data |-> <<>>, data_len |-> 0]

\* Message(source, priority, pgn, data).  The payload attributes are assigned
\* only for 0 < len(data) < max_data_len; otherwise the object has no data
\* and no data_len attribute (has_data FALSE).
Message(source, priority, pgn, data) ==
    LET keep == 0 < Len(data) /\ Len(data) < max_data_len
    IN  [source |-> source, destination |-> 255,
         priority |-> BitAnd(priority, 7), pgn |-> pgn,
         has_data |-> keep,
         data |-> IF keep THEN data ELSE <<>>,
         data_len |-> IF keep THEN Len(data) ELSE 0]

\* what an operation on a Message did: its name, its argument (<<>> for
\* none), the exception that left it ("none" when it returned) and
\* <<the value returned>> (<<>> for None)
Result(op, arg, raised, value) ==
    [op |-> op, arg |-> arg, raised |-> raised, value |-> value]

\* a faulty variant of check_destination: every destination becomes global
check_destination_all(m) == [m EXCEPT !.destination = 255]

\* Message.check_destination()
check_destination(m) ==
    IF BitAnd(m.pgn, 255) # 0 THEN [m EXCEPT !.destination = 255] ELSE m

\* Message.is_valid(): self.pgn != 0 and len(self.data) > 0; reading
\* self.data of an object without the attribute raises AttributeError
is_valid(m) ==
    IF m.pgn = 0 THEN Result("is_valid", <<>>, "none", <<FALSE>>)
    ELSE IF ~m.has_data THEN Result("is_valid", <<>>, "AttributeError", <<>>)
    ELSE Result("is_valid", <<>>, "none", <<Len(m.data) > 0>>)

\* the data methods class Message defines (message.py 109-229); each of them
\* prints "NotImplemented <name>" and returns None
MessageMethods ==
    {"add_float", "add_1_byte_double", "add_2_byte_udouble", "add_2_byte_double",
     "add_3_byte_double", "add_4_byte_udouble", "add_4_byte_double",
     "add_8_byte_double", "add_byte", "add_2_byte_uint", "add_2_byte_int",
     "add_3_byte_int", "add_4_byte_uint", "add_uint_64", "add_str",
     "add_var_str", "add_buf",
     "get_float", "get_1_byte_double", "get_1_byte_udouble", "get_2_byte_double",
     "get_2_byte_udouble", "get_3_byte_double", "get_4_byte_double",
     "get_4_byte_udouble", "get_8_byte_double", "get_byte", "get_2_byte_int",
     "get_2_byte_uint", "get_3_byte_uint", "get_4_byte_uint", "get_uint_64",
     "get_str", "get_var_str", "get_buf", "set_byte", "set_2_byte_uint"}

\* one call msg.<method>(value, precision) or msg.<method>(precision, index);
\* value and precision are "-" where the call has none
Call(method, value, precision) ==
    [method |-> method, value |-> value, precision |-> precision]

\* the calls made on msg one after the other: a method of MessageMethods
\* leaves msg as it is and returns None, any other name raises
\* AttributeError and ends the sequence.  made counts the calls that
\* returned, calls are the calls the caller's code holds.
run(m, calls) ==
    LET bad == {k \in DOMAIN calls : calls[k].method \notin MessageMethods}
        first == IF bad = {} THEN 0
                 ELSE CHOOSE k \in bad : \A j \in bad : k <= j
    IN  [raised |-> IF bad = {} THEN "none" ELSE "AttributeError",
         msg |-> m, calls |-> calls,
         made |-> IF bad = {} THEN Len(calls) ELSE first - 1]

\* --- n2k/messages.py -------------------------------------------------------
\* set_n2k_charger_status(data): the message object it builds, the calls it
\* makes on it and how they end
set_n2k_charger_status(data) ==
    run([Message(15, 6, 0, <<>>) EXCEPT !.pgn = 127507, !.priority = 6],
        <<Call("add_byte_uint", data.instance, "-"),
          Call("add_byte_uint", data.battery_instance, "-"),
          Call("add_byte_uint",
               BitOr(Shl(BitAnd(data.charger_mode, 15), 4), BitAnd(data.charge_state, 15)),
               "-"),
          Call("add_byte_uint",
               BitOr(BitOr(Shl(15, 4), Shl(BitAnd(data.equalization_pending, 3), 2)),
                     BitAnd(data.enabled, 3)),
               "-"),
          Call("add_2_byte_udouble", data.equalization_time_remaining, "1")>>)

\* parse_n2k_charger_status(msg): the calls it makes, in order
parse_n2k_charger_status_calls ==
        <<Call("get_byte_uint", "-", "-"),
      Call("get_byte_uint", "-", "-"),
      Call("get_byte_uint", "-", "-"),
      Call("get_byte_uint", "-", "-"),
      Call("get_2_byte_double", "-", "60")>>

\* parse_n2k_charger_status(msg): the exception of the first call that
\* raises; were every call to return None, vb & 0x0F would raise TypeError
parse_n2k_charger_status(msg) ==
    LET r == run(msg, parse_n2k_charger_status_calls)
    IN  IF r.raised # "none" THEN Result("parse", <<>>, r.raised, <<>>)
        ELSE Result("parse", <<>>, "TypeError", <<>>)

\* class PGN(IntEnum) of n2k/n2k.py, the members the encoders below name;
\* PGN.<member> of a name the enum does not define raises AttributeError
PGN ==
    ("FluidLevel" :> 127505) @@ ("MagneticVariation" :> 127258) @@
    ("WindSpeed" :> 130306) @@ ("ChargerConfigurationStatus" :> 127510) @@
    ("WaypointList" :> 129285) @@
    ("RouteAndWaypointServiceWPListWPNameAndPosition" :> 130074)

\* msg = Message(); msg.pgn = PGN.<member>; msg.priority = <priority> (0 for
\* an encoder that assigns none), then the calls on msg
encode(member, priority, calls) ==
    LET msg == Message(15, 6, 0, <<>>)
        prio == IF priority = 0 THEN msg.priority ELSE priority
    IN  IF member = "" THEN run([msg EXCEPT !.priority = prio], calls)
        ELSE IF member \notin DOMAIN PGN
        THEN [raised |-> "AttributeError", msg |-> msg, calls |-> calls, made |-> 0]
        ELSE run([msg EXCEPT !.pgn = PGN[member], !.priority = prio], calls)

\* set_n2k_fluid_level(data): it assigns the priority and no pgn
set_n2k_fluid_level(data) ==
    encode("", 6,
        <<Call("add_byte_uint",
               BitOr(BitAnd(data.instance, 15), Shl(BitAnd(data.fluid_type, 15), 4)),
               "-"),
          Call("add_2_byte_double", data.level, "0.004"),
          Call("add_4_byte_udouble", data.capacity, "0.1"),
          Call("add_byte_uint", 255, "-")>>)

\* set_n2k_anchor_windlass_operating_status(data): it assigns the pgn and
\* no priority
set_n2k_anchor_windlass_operating_status(data) ==
    encode("AnchorWindlassOperatingStatus", 0,
        <<Call("add_byte_uint", data.sid, "-"),
          Call("add_byte_uint", data.windlass_identifier, "-"),
          Call("add_byte_uint",
               BitOr(BitOr(240, Shl(BitAnd(data.rode_type_status, 3), 2)),
                     BitAnd(data.windlass_motion_status, 3)),
               "-"),
          Call("add_2_byte_udouble", data.rode_counter_value, "0.1"),
          Call("add_2_byte_udouble", data.windlass_line_speed, "0.01"),
          Call("add_byte_uint",
               BitOr(Shl(data.windlass_operating_events, 2),
                     BitAnd(data.anchor_docking_status, 3)),
               "-")>>)

\* the loop "for i, waypoint in enumerate(data.waypoints)" of both waypoint
\* encoders: available_data_len after the first k waypoints, lens[k] being
\* the length of the k-th name as the encoder counts it
RECURSIVE available_data_len(_, _, _)
available_data_len(budget, lens, k) ==
    IF k = 0 THEN budget
    ELSE available_data_len(budget, lens, k - 1) - (12 + lens[k])

\* the index i at which the loop raises ValueError("Buffer size exceeded,
\* only the first {i} waypoints fit in the data buffer"), -1 when it ends
\* without raising
buffer_size_exceeded(budget, lens) ==
    LET over == {k \in DOMAIN lens : available_data_len(budget, lens, k) < 0}
    IN  IF over = {} THEN -1
        ELSE (CHOOSE k \in over : \A j \in over : k <= j) - 1

\* the four calls per waypoint that end both waypoint encoders
waypoint_calls(names, wps) ==
    [k \in 1..(4 * Len(wps)) |->
        LET w == wps[(k - 1) \div 4 + 1]
        IN  CASE k % 4 = 1 -> Call("add_2_byte_uint", w.id, "-")
              [] k % 4 = 2 -> Call("add_var_str", names[(k - 1) \div 4 + 1], "-")
              [] k % 4 = 3 -> Call("add_4_byte_double", w.latitude, "1e-7")
              [] OTHER     -> Call("add_4_byte_double", w.longitude, "1e-7")]

\* what a waypoint encoder did: the exception that left it ("none" when it
\* returned msg), msg, the calls of its code, how many of them returned, and
\* for ValueError the number i its text names (-1 otherwise)
waypoint_encoder(member, priority, budget, lens, calls) ==
    LET i == buffer_size_exceeded(budget, lens)
        e == encode(member, priority, IF i >= 0 THEN <<>> ELSE calls)
    IN  IF e.raised = "none" /\ i >= 0
        THEN [raised |-> "ValueError", msg |-> e.msg, calls |-> calls,
              made |-> 0, i |-> i]
        ELSE [raised |-> e.raised, msg |-> e.msg, calls |-> calls,
              made |-> e.made, i |-> -1]

\* set_n2k_route_waypoint_information(data)
set_n2k_route_waypoint_information(data) ==
    waypoint_encoder("WaypointList", 6,
                     max_data_len - 10 - Len(data.route_name) - 2,
                     [k \in DOMAIN data.waypoints |-> Len(data.waypoints[k].name)],
        <<Call("add_2_byte_uint", data.start, "-"),
          Call("add_2_byte_uint", Len(data.waypoints), "-"),
          Call("add_2_byte_uint", data.database, "-"),
          Call("add_2_byte_uint", data.route, "-"),
          Call("add_byte_uint",
               BitOr(BitOr(224, Shl(BitAnd(data.supplementary_data, 3), 3)),
                     BitAnd(data.nav_direction, 7)),
               "-"),
          Call("add_var_str", data.route_name, "-"),
          Call("add_byte_uint", 255, "-")>>
        \o waypoint_calls([k \in DOMAIN data.waypoints |-> data.waypoints[k].name],
                          data.waypoints))

\* waypoint.name or "\x00"
name_or_nul(w) == IF w.name = <<>> THEN <<0>> ELSE w.name

\* set_n2k_waypoint_list(data)
set_n2k_waypoint_list(data) ==
    waypoint_encoder("RouteAndWaypointServiceWPListWPNameAndPosition", 7,
                     max_data_len - 10,
                     [k \in DOMAIN data.waypoints |-> Len(name_or_nul(data.waypoints[k]))],
        <<Call("add_2_byte_uint", data.start, "-"),
          Call("add_2_byte_uint", Len(data.waypoints), "-"),
          Call("add_2_byte_uint", data.num_waypoints, "-"),
          Call("add_2_byte_uint", data.database, "-"),
          Call("add_byte_uint", 255, "-"),
          Call("add_byte_uint", 255, "-")>>
        \o waypoint_calls([k \in DOMAIN data.waypoints |-> name_or_nul(data.waypoints[k])],
                          data.waypoints))

\* set_n2k_wind_speed(data)
set_n2k_wind_speed(data) ==
    encode("WindSpeed", 2,
        <<Call("add_byte_uint", data.sid, "-"),
          Call("add_2_byte_udouble", data.wind_speed, "0.01"),
          Call("add_2_byte_udouble", data.wind_angle, "0.0001"),
          Call("add_byte_uint", data.wind_reference, "-"),
          Call("add_byte_uint", 255, "-"),
          Call("add_byte_uint", 255, "-")>>)

\* set_n2k_magnetic_variation(data)
set_n2k_magnetic_variation(data) ==
    encode("MagneticVariation", 6,
        <<Call("add_byte_uint", data.sid, "-"),
          Call("add_byte_uint", BitAnd(data.source, 15), "-"),
          Call("add_2_byte_uint", data.days_since_1970, "-"),
          Call("add_2_byte_double", data.variation, "0.0001"),
          Call("add_2_byte_uint", 65535, "-")>>)

\* set_n2k_charger_configuration_status(data)
set_n2k_charger_configuration_status(data) ==
    encode("ChargerConfigurationStatus", 6,
        <<Call("add_byte_uint", data.charger_instance, "-"),
          Call("add_byte_uint", data.battery_instance, "-"),
          Call("add_byte_uint", BitAnd(data.enable, 3), "-"),
          Call("add_byte_uint", data.charge_current_limit, "-"),
          Call("add_byte_uint",
               BitOr(Shl(BitAnd(data.charger_mode, 15), 4),
                     BitAnd(data.charging_algorithm, 15)),
               "-"),
          Call("add_byte_uint",
               BitOr(BitOr(Shl(BitAnd(data.over_charge_enable, 3), 6),
                           Shl(BitAnd(data.equalization_enabled, 3), 4)),
                     BitAnd(data.battery_temperature, 15)),
               "-"),
          Call("add_2_byte_uint", data.equalization_time_remaining, "-")>>)

\* msg = Message(); msg.<add>(val); index = IntRef(0); msg.<get>(index), as
\* the tests of tests/test_message.py do: the exception that ended it
\* ("none" when both calls returned), what get returned (<<>> for None) and
\* the index afterwards.  A method of MessageMethods adds nothing, returns
\* None and leaves the index where it was.
add_then_get(add, get, val) ==
    LET a == run(Message(15, 6, 0, <<>>), <<Call(add, val, "-")>>)
        g == run(a.msg, <<Call(get, "-", "-")>>)
    IN  [raised |-> IF a.raised # "none" THEN a.raised ELSE g.raised,
         msg |-> a.msg, value |-> <<>>, index |-> 0]

\* N2K_DOUBLE_NA, the value that stands for "not available"
N2K_DOUBLE_NA == -1000000000

\* msg = Message(); msg.add_<n>_byte_udouble(v, precision)
encode_udouble(n, v, precision) ==
    LET add == CASE n = 1 -> "add_1_byte_udouble" [] n = 2 -> "add_2_byte_udouble"
                 [] n = 3 -> "add_3_byte_udouble" [] OTHER -> "add_4_byte_udouble"
    IN  run(Message(15, 6, 0, <<>>), <<Call(add, v, precision)>>)

\* msg = Message(data=data); msg.get_<n>_byte_udouble(precision, IntRef(0)):
\* the exception and what the call returned (<<>> for None)
decode_udouble(n, data, precision) ==
    LET get == CASE n = 1 -> "get_1_byte_udouble" [] n = 2 -> "get_2_byte_udouble"
                 [] n = 3 -> "get_3_byte_udouble" [] OTHER -> "get_4_byte_udouble"
        g == run(Message(15, 6, 0, data), <<Call(get, "-", precision)>>)
    IN  [raised |-> g.raised, msg |-> g.msg, value |-> <<>>]

\* N2kCANMessage(): a free slot
EmptySlot ==
    [free_msg |-> TRUE, ready |-> FALSE, known_message |-> FALSE,
     system_message |-> FALSE, copied_len |-> 0, last_frame |-> 0,
     n2k_msg |-> EmptyMsg]

\* N2kCANMessageBuffer(size): size free slots
N2kCANMessageBuffer(size) == [i \in 1..size |-> EmptySlot]

\* N2kCANMessage.free_message(): the slot is free again
free_message(slot) == EmptySlot

\* N2kCANMessageBuffer.find_free_slot(): the first free slot, 0 for None
find_free_slot(b) ==
    IF \E i \in DOMAIN b : b[i].free_msg
    THEN CHOOSE i \in DOMAIN b :
            b[i].free_msg /\ \A j \in DOMAIN b : b[j].free_msg => i <= j
    ELSE 0

\* N2kCANMessageBuffer.find_matching(pgn, source): the first slot in use
\* that holds a message of this pgn and source, 0 for None
Matches(slot, pgn, source) ==
    ~slot.free_msg /\ slot.n2k_msg.pgn = pgn /\ slot.n2k_msg.source = source

find_matching(b, pgn, source) ==
    IF \E i \in DOMAIN b : Matches(b[i], pgn, source)
    THEN CHOOSE i \in DOMAIN b :
            Matches(b[i], pgn, source)
            /\ \A j \in DOMAIN b : Matches(b[j], pgn, source) => i <= j
    ELSE 0

\* n2k/constants.py: the lifetime of a slot without a frame, in ms
MAX_N2K_MSG_BUF_TIME == 100

\* the buffer notes the time a slot is handed out for a frame (i = 0: None)
touch(st, i, t) == IF i = 0 THEN st ELSE [st EXCEPT ![i] = t]

\* a slot in use that took its last frame MAX_N2K_MSG_BUF_TIME ms ago or earlier
Expired(slot, last, t) == ~slot.free_msg /\ t - last >= MAX_N2K_MSG_BUF_TIME

\* a faulty variant of tick: no slot is ever timed out
tick_keep(b, st, t) == b

\* tick(): every expired slot is freed
tick(b, st, t) ==
    [i \in DOMAIN b |-> IF Expired(b[i], st[i], t) THEN free_message(b[i]) ELSE b[i]]

---------------------------------------------------------------------------
(* n2k/node.py: Node.on_message_received.  A can.Message is a record       *)
(* [arbitration_id, data]; its dlc is Len(data).  Sequences are 1-based:   *)
(* msg.data[0] of the code is data[1] here.                                *)

\* bytearray.append(item): item must be one integer; handed a bytearray it
\* raises TypeError and leaves the target as it was.
\* item is <<"int", n>> or <<"bytearray", bytes>>.
bytearray_append(target, item) ==
    IF item[1] = "int"
    THEN [raised |-> FALSE, data |-> Append(target, item[2])]
    ELSE [raised |-> TRUE, data |-> target]

\* the state of a call after its frame was stored: the buffer, the slot
\* n2k_can_msg refers to (0 for None), and whether an exception left the call
Stored(b, cur, raised) == [buf |-> b, cur |-> cur, raised |-> raised]

\* a faulty variant of first_frame: without a free slot the first slot is taken
first_frame_steal(b, i, msg_header, data, chk) ==
    LET k == IF i = 0 THEN 1 ELSE i
    IN  Stored([b EXCEPT ![k] =
                 [free_msg |-> FALSE, ready |-> @.ready,
                  known_message |-> chk.known_message,
                  system_message |-> chk.system_message,
                  copied_len |-> 0,
                  last_frame |-> IF chk.fast_packet THEN data[1] ELSE 0,
                  n2k_msg |->
                    [priority |-> msg_header.priority, pgn |-> msg_header.pgn,
                     source |-> msg_header.source,
                     destination |-> msg_header.destination,
                     data |-> IF chk.fast_packet
                              THEN SubSeq(data, 3, Len(data)) ELSE data,
                     data_len |-> IF chk.fast_packet
                                  THEN data[2] ELSE Len(data)]]],
               k, FALSE)

\* lines 156-176: a single frame, or the first frame of a Fast Packet;
\* i is what find_free_slot returned
first_frame(b, i, msg_header, data, chk) ==
    IF i = 0
    THEN Stored(b, 0, FALSE)
    ELSE Stored([b EXCEPT ![i] =
                 [free_msg |-> FALSE, ready |-> @.ready,
                  known_message |-> chk.known_message,
                  system_message |-> chk.system_message,
                  copied_len |-> 0,
                  last_frame |-> IF chk.fast_packet THEN data[1] ELSE 0,
                  n2k_msg |->
                    [priority |-> msg_header.priority, pgn |-> msg_header.pgn,
                     source |-> msg_header.source,
                     destination |-> msg_header.destination,
                     data |-> IF chk.fast_packet
                              THEN SubSeq(data, 3, Len(data)) ELSE data,
                     data_len |-> IF chk.fast_packet
                                  THEN data[2] ELSE Len(data)]]],
               i, FALSE)

\* a faulty variant of continuation_frame: an orphan frame is kept in slot 1
continuation_frame_orphan(b, i, data) ==
    LET k == IF i = 0 THEN 1 ELSE i
    IN  Stored([b EXCEPT ![k].free_msg = FALSE, ![k].last_frame = data[1]],
               k, FALSE)

\* lines 179-198: a continuation frame of a Fast Packet; i is what
\* find_matching returned.  last_frame is assigned before the append.
continuation_frame(b, i, data) ==
    IF i = 0
    THEN \* orphan frame
         Stored(b, 0, FALSE)
    ELSE IF b[i].last_frame + 1 = data[1]
    THEN LET app == bytearray_append(b[i].n2k_msg.data, <<"bytearray", Tail(data)>>)
             cut == IF Len(app.data) > max_data_len
                    THEN SubSeq(app.data, 1, max_data_len) ELSE app.data
         IN  Stored([b EXCEPT ![i].last_frame = data[1],
                              ![i].n2k_msg.data = IF app.raised THEN @ ELSE cut],
                    i, app.raised)
    ELSE \* a frame has been lost: free the message
         Stored([b EXCEPT ![i] = free_message(@)], 0, FALSE)

\* what a call leaves: the buffer, the messages handed to the handlers
\* (none or one), whether the call ended in an exception, and whether the
\* buffer lookup returned a slot
Outcome(b, delivered, raised, found) ==
    [buf |-> b, delivered |-> delivered, raised |-> raised, found |-> found]

\* lines 200-207: a complete message goes to the handlers and its slot is freed
dispatch(st, found) ==
    IF st.raised \/ st.cur = 0
    THEN Outcome(st.buf, <<>>, st.raised, found)
    ELSE LET slot  == st.buf[st.cur]
             ready == Len(slot.n2k_msg.data) >= slot.n2k_msg.data_len
         IN  IF ready
             THEN Outcome([st.buf EXCEPT ![st.cur] = free_message(@)],
                          <<slot.n2k_msg>>, FALSE, found)
             ELSE Outcome([st.buf EXCEPT ![st.cur].ready = FALSE],
                          <<>>, FALSE, found)

\* Node.custom_single_frame_messages, Node.custom_fast_packet_messages: None
custom_single_frame_messages == {}
custom_fast_packet_messages == {}

\* the slot the buffer hands out for a frame: find_free_slot() for a single
\* frame or a first frame, find_matching(pgn, source) for a continuation frame
lookup(b, msg) ==
    LET msg_header == can_id_to_n2k(msg.arbitration_id)
        chk == _check_known_message(msg_header.pgn, custom_single_frame_messages,
                                    custom_fast_packet_messages)
    IN  IF ~chk.fast_packet \/ is_fast_packet_first_frame(msg.data[1])
        THEN find_free_slot(b)
        ELSE find_matching(b, msg_header.pgn, msg_header.source)

on_message_received(b, msg) ==
    LET msg_header == can_id_to_n2k(msg.arbitration_id)
        chk == _check_known_message(msg_header.pgn, custom_single_frame_messages,
                                    custom_fast_packet_messages)
    IN  IF ~chk.fast_packet \/ is_fast_packet_first_frame(msg.data[1])
        THEN LET i == find_free_slot(b)
             IN  dispatch(first_frame(b, i, msg_header, msg.data, chk), i # 0)
        ELSE LET i == find_matching(b, msg_header.pgn, msg_header.source)
             IN  dispatch(continuation_frame(b, i, msg.data), i # 0)

\* --- n2k/node.py: the internal device and the handlers ----------------------
N2K_MAX_CAN_BUS_ADDRESS == 251
N2K_NULL_CAN_BUS_ADDRESS == 254
MAX_N2K_MODEL_ID_LEN == 32
MAX_N2K_SW_CODE_LEN == 32
MAX_N2K_MODEL_VERSION_LEN == 32
MAX_N2K_MODEL_SERIAL_CODE_LEN == 32

\* s[:n] of a str
prefix(s, n) == SubSeq(s, 1, IF Len(s) < n THEN Len(s) ELSE n)

\* ProductInformation(...), of which the four strings are kept
ProductInformation(model_id, sw_code, model_version, model_serial_code) ==
    [n2k_model_id |-> model_id, n2k_sw_code |-> sw_code,
     n2k_model_version |-> model_version,
     n2k_model_serial_code |-> model_serial_code]

\* Node(bus): the class attributes and what __init__ sets; <<>> is None, and
\* message_handlers holds the device list, a handler for every pgn
Node ==
    [product_information |-> ProductInformation(<<>>, <<>>, <<>>, <<>>),
     pending_product_information |-> <<>>,
     pending_configuration_information |-> <<>>,
     address_claim_end_source |-> N2K_MAX_CAN_BUS_ADDRESS,
     message_handlers |-> {[id |-> "device_list", pgn |-> 0]}]

\* Node.set_product_information(name, firmware_version, model_version,
\* model_serial_code): each string is cut to its maximum length and stored
set_product_information(n, name_, firmware_version, model_version, model_serial_code) ==
    [n EXCEPT !.product_information =
        ProductInformation(prefix(name_, MAX_N2K_MODEL_ID_LEN),
                           prefix(firmware_version, MAX_N2K_SW_CODE_LEN),
                           prefix(model_version, MAX_N2K_MODEL_VERSION_LEN),
                           prefix(model_serial_code, MAX_N2K_MODEL_SERIAL_CODE_LEN))]

\* a faulty variant of set_pending_product_information: the delay of the
\* configuration information
set_pending_product_information_10(n, source, t) ==
    [n EXCEPT !.pending_product_information = <<t + 187 + source * 10>>]

\* Node.set_pending_product_information(), with millis() = t
set_pending_product_information(n, source, t) ==
    [n EXCEPT !.pending_product_information = <<t + 187 + source * 8>>]

\* Node.clear_pending_product_information()
clear_pending_product_information(n) ==
    [n EXCEPT !.pending_product_information = <<>>]

\* Node.query_pending_product_information(), with millis() = t
query_pending_product_information(n, t) ==
    IF n.pending_product_information # <<>>
    THEN n.pending_product_information[1] < t
    ELSE FALSE

\* Node.set_pending_configuration_information(), with millis() = t
set_pending_configuration_information(n, source, t) ==
    [n EXCEPT !.pending_configuration_information = <<t + 187 + source * 10>>]

\* Node.clear_pending_configuration_information()
clear_pending_configuration_information(n) ==
    [n EXCEPT !.pending_configuration_information = <<>>]

\* Node.query_pending_configuration_information(), with millis() = t
query_pending_configuration_information(n, t) ==
    IF n.pending_configuration_information # <<>>
    THEN n.pending_configuration_information[1] < t
    ELSE FALSE

\* a faulty variant of update_address_claim_end_source: no wrap at 0
update_address_claim_end_source_nowrap(n, source) ==
    [n EXCEPT !.address_claim_end_source = source - 1]

\* Node.update_address_claim_end_source()
update_address_claim_end_source(n, source) ==
    IF source > 0
    THEN [n EXCEPT !.address_claim_end_source = source - 1]
    ELSE [n EXCEPT !.address_claim_end_source = N2K_MAX_CAN_BUS_ADDRESS]

\* Node.attach_msg_handler(msg_handler)
attach_msg_handler(n, msg_handler) ==
    [n EXCEPT !.message_handlers = @ \cup {msg_handler}]

\* Node.detach_msg_handler(msg_handler): set.remove, KeyError when the
\* handler is not attached
detach_msg_handler(n, msg_handler) ==
    IF msg_handler \in n.message_handlers
    THEN [raised |-> "none", node |-> [n EXCEPT !.message_handlers = @ \ {msg_handler}]]
    ELSE [raised |-> "KeyError", node |-> n]

\* a faulty variant of handle_msg_calls: every handler is called
handle_msg_calls_all(n, msg) == [h \in n.message_handlers |-> 1]

\* lines 204-206 of on_message_received: how often each attached handler's
\* handle_msg is called with a message that is delivered
handle_msg_calls(n, msg) ==
    [h \in n.message_handlers |->
        IF h.pgn = 0 \/ h.pgn = msg.pgn THEN 1 ELSE 0]

\* Node._handle_received_system_message, and behind it _handle_iso_address_claim
\* and send_iso_address_claim: each prints "NotImplemented ..." and returns;
\* the node's address and the bus are left as they were.
_handle_received_system_message(source, bus, n2k_msg) ==
    [n2k_source |-> source, sent |-> bus]

---------------------------------------------------------------------------
(* Bounds and inputs.                                                      *)

\* Node(bus, can_msg_buffer_size): the number of reassembly slots
can_msg_buffer_size == 2

\* on_message_received calls in one behaviour of the node
MaxCalls == 4

\* on_message_received calls in one behaviour of the address claim
MaxClaimCalls == 2

\* the highest frame counter among the continuation frames put on the bus
MaxSeq == 2

\* the arguments of Message(...) and the attribute values assigned to it
MsgSources == {15, 22}
MsgPriorities == {2, 6, 9}
MsgPgns == {0, 59904, 129285, 130306}
MsgDestinations == {5, 255}
MsgPayloads ==
    {<<>>, <<1>>, <<0, 232, 3, 118, 231, 0, 255, 255>>,
     [i \in 1..(max_data_len - 1) |-> 0], [i \in 1..max_data_len |-> 0]}

\* ChargerStatus records within the documented ranges
ChargerStatusRecords ==
    [instance : {0, 255}, battery_instance : {1},
     charge_state : {0, 9}, charger_mode : {0, 3},
     enabled : {0, 1}, equalization_pending : {0, 1},
     equalization_time_remaining : {0, 120}]

\* waypoint names as character codes, of the lengths that reach the limit
\* of max_data_len bytes, and the lists of waypoints made of them
MaxWaypoints == 3
NameOfLen(n) == [k \in 1..n |-> 65]
WaypointLists ==
    UNION {[1..n -> [id : {1}, name : {NameOfLen(0), NameOfLen(59), NameOfLen(94)},
                     latitude : {0}, longitude : {0}]] : n \in 0..MaxWaypoints}
RouteWaypointInformationRecords ==
    [start : {1}, database : {0}, route : {0}, nav_direction : {0, 1},
     route_name : {NameOfLen(0), NameOfLen(22)}, supplementary_data : {0},
     waypoints : WaypointLists]
WaypointListRecords ==
    [start : {1}, num_waypoints : {0}, database : {0}, waypoints : WaypointLists]

\* the integers of tests/test_message.py as the bytes of their width, low
\* byte first: zero, the largest unsigned value, the smallest and the
\* largest signed value
AllOnes(n) == [k \in 1..n |-> 255]

\* the pairs of methods the tests use, with the width of the field
IntegerFields ==
    {[add |-> "add_byte_uint",   get |-> "get_byte_uint",   width |-> 1, signed |-> FALSE],
     [add |-> "add_byte_int",    get |-> "get_byte_int",    width |-> 1, signed |-> TRUE],
     [add |-> "add_2_byte_uint", get |-> "get_2_byte_uint", width |-> 2, signed |-> FALSE],
     [add |-> "add_2_byte_int",  get |-> "get_2_byte_int",  width |-> 2, signed |-> TRUE],
     [add |-> "add_3_byte_uint", get |-> "get_3_byte_uint", width |-> 3, signed |-> FALSE],
     [add |-> "add_3_byte_int",  get |-> "get_3_byte_int",  width |-> 3, signed |-> TRUE],
     [add |-> "add_4_byte_uint", get |-> "get_4_byte_uint", width |-> 4, signed |-> FALSE],
     [add |-> "add_uint_64",     get |-> "get_uint_64",     width |-> 8, signed |-> FALSE]}
IntegerValues(f) ==
    IF f.signed
    THEN {[k \in 1..f.width |-> 0],
          [k \in 1..f.width |-> IF k = f.width THEN 128 ELSE 0],
          [k \in 1..f.width |-> IF k = f.width THEN 127 ELSE 255]}
    ELSE {[k \in 1..f.width |-> 0], AllOnes(f.width)}

\* calls of on_message_received with time passing, and how far the clock runs
MaxTimedCalls == 2
MaxNow == 200
TickSteps == {40, 60, 100}

IsoAddressClaim == 60928

\* the 29 bit identifier another node puts on the bus
BusId(prio, dp, pf, ps, src) ==
    prio * (2 ^ 26) + dp * (2 ^ 24) + pf * (2 ^ 16) + ps * (2 ^ 8) + src

\* identifiers of WaypointList (129285 = 1F905h), WindSpeed (130306 = 1FD02h)
\* and IsoAddressClaim (60928 = EE00h, sent to all)
WaypointListId(src)    == BusId(3, 1, 249, 5, src)
WindSpeedId(src)       == BusId(2, 1, 253, 2, src)
IsoAddressClaimId(src) == BusId(6, 0, 238, 255, src)

CanMessage(id, data) == [arbitration_id |-> id, data |-> data]

\* the payload a sender splits into Fast Packet frames: byte j is 10 + j
PayloadByte(j) == 10 + j

\* payload lengths announced in first frames: 1, 2 and 3 frames long
LenBytes == {3, 13, 20}

\* first frame: sequence counter (frame counter 0), length, 6 payload bytes
FirstFrameData(seq, L) == <<seq, L>> \o [j \in 1..6 |-> PayloadByte(j - 1)]

\* continuation frame k: sequence counter, 7 payload bytes from offset 6 + 7(k-1)
ContFrameData(seq, k) ==
    <<seq + k>> \o [j \in 1..7 |-> PayloadByte(6 + 7 * (k - 1) + j - 1)]

\* NAMEs of competing nodes, 8 bytes little-endian: 0000000000000080h and all ones
LowName  == <<128, 0, 0, 0, 0, 0, 0, 0>>
HighName == <<255, 255, 255, 255, 255, 255, 255, 255>>

FastPacketFrames ==
    {CanMessage(WaypointListId(22), FirstFrameData(0, L)) : L \in LenBytes}
    \cup {CanMessage(WaypointListId(22), ContFrameData(0, k)) : k \in 1..MaxSeq}
    \cup {CanMessage(WaypointListId(15), FirstFrameData(0, 13)),
          CanMessage(WaypointListId(15), ContFrameData(0, 1))}

SingleFrames ==
    {CanMessage(WindSpeedId(22), <<0, 232, 3, 118, 231, 0, 255, 255>>),
     CanMessage(WindSpeedId(22), <<>>)}

Frames == FastPacketFrames \cup SingleFrames

\* addresses of the address claim: the node's and the competitors'
ClaimSources == {0, 1, 22, 251}

AddressClaimFrames ==
    {CanMessage(IsoAddressClaimId(a), nm) : a \in ClaimSources, nm \in {LowName, HighName}}

\* the addresses a node can hold, the handlers attached to it, the strings of
\* the product information (of the longest length allowed, and one longer),
\* the frames that deliver a message at once, and the times of the clock
NodeSources == {0, 1, 22, 251, N2K_NULL_CAN_BUS_ADDRESS}
MsgHandlers ==
    {[id |-> "a", pgn |-> 0], [id |-> "b", pgn |-> 130306],
     [id |-> "c", pgn |-> 129285]}
ProductStrings == {NameOfLen(MAX_N2K_MODEL_ID_LEN), NameOfLen(MAX_N2K_MODEL_ID_LEN + 1)}
DeliveredFrames ==
    {CanMessage(WindSpeedId(22), <<0, 232, 3, 118, 231, 0, 255, 255>>),
     CanMessage(WaypointListId(22), FirstFrameData(0, 3))}
PendingTimes == {0, 3, 187, 188, 190, 191, 195, 196, 197, 198}


\* the device of the node: set_device_information(1), instances 0
NodeDevice ==
    [unique_number |-> 1, manufacturer_code |-> 2046, device_instance |-> 0,
     device_function |-> 130, device_class |-> 25, system_instance |-> 0,
     industry_group |-> 4]

\* field values within their widths, the extremes among them
FieldValues ==
    [unique_number |-> {1, 2097151}, manufacturer_code |-> {2046, 2047},
     device_instance |-> {0, 255}, device_function |-> {130, 255},
     device_class |-> {25, 255}, system_instance |-> {0, 15},
     industry_group |-> {4, 7}]

DeviceSet ==
    [unique_number : FieldValues.unique_number,
     manufacturer_code : FieldValues.manufacturer_code,
     device_instance : FieldValues.device_instance,
     device_function : FieldValues.device_function,
     device_class : FieldValues.device_class,
     system_instance : FieldValues.system_instance,
     industry_group : FieldValues.industry_group]

\* 29 bit identifiers by their fields; edp is bit 25
CanInputs ==
    {[prio |-> p, edp |-> e, dp |-> d, pf |-> f, ps |-> s, src |-> a,
      id |-> BusId(p, d, f, s, a) + e * (2 ^ 25)] :
        p \in {0, 3, 7}, e \in {0, 1}, d \in {0, 1},
        f \in {0, 238, 239, 240, 255}, s \in {0, 5, 255}, a \in {0, 22, 255}}

\* arguments of direct calls of n2k_id_to_can
EncPriorities   == {0, 6}
EncPgns         == {0, 60928, 60933, 61183, 61184, 126208, 126209, 130306}
EncSources      == {0, 22}
EncDestinations == {0, 255}

---------------------------------------------------------------------------
(* The state machines.                                                     *)

CanIdle  == can_in = CHOOSE c \in CanInputs : TRUE
NameIdle == device_information = NodeDevice
NodeIdle == /\ buf = N2kCANMessageBuffer(can_msg_buffer_size)
            /\ n2k_source = 0
            /\ sent = <<>>
            /\ hist = <<>>
            /\ now = 0
            /\ stamp = [i \in 1..can_msg_buffer_size |-> 0]

\* no Message object under test yet: Message() and no operation on it
MsgIdle == /\ mobj = Message(15, 6, 0, <<>>)
           /\ mres = Result("init", <<>>, "none", <<>>)

\* a Node just made, and no call yet
DevIdle == /\ node = Node
           /\ res = Result("init", <<>>, "none", <<>>)


CanStart  == can_hdr = <<>> /\ can_back = <<>> /\ enc = <<>>
NameStart == name_reg = <<>> /\ name_src = <<>> /\ name_op = "init"

\* --- the node: Node(bus, can_msg_buffer_size) ------------------------------
Init ==
    /\ NodeIdle
    /\ NameIdle /\ NameStart
    /\ CanIdle /\ CanStart
    /\ MsgIdle
    /\ DevIdle

\* one call of Node.on_message_received(msg)
Receive(msg) ==
    /\ \E r \in {on_message_received(buf, msg)} :
         \E sys \in {IF r.delivered # <<>>
                     THEN _handle_received_system_message(n2k_source, sent, r.delivered[1])
                     ELSE [n2k_source |-> n2k_source, sent |-> sent]} :
           /\ buf' = r.buf
           /\ n2k_source' = sys.n2k_source
           /\ sent' = sys.sent
           /\ hist' = Append(hist, [msg |-> msg, delivered |-> r.delivered,
                                    raised |-> r.raised, found |-> r.found])
    /\ stamp' = touch(stamp, lookup(buf, msg), now)
    /\ UNCHANGED <<now, canVars, nameVars, msgVars, devVars>>

\* the bus delivers a frame
OnMessageReceived ==
    /\ Len(hist) < MaxCalls
    /\ \E msg \in Frames : Receive(msg)

Next == OnMessageReceived

Spec == Init /\ [][Next]_vars

\* --- a Message object and the operations on it ------------------------------
InitMsg ==
    /\ NodeIdle
    /\ NameIdle /\ NameStart
    /\ CanIdle /\ CanStart
    /\ MsgIdle
    /\ DevIdle

\* msg = Message(source, priority, pgn, data)
NewMessage ==
    /\ \E source \in MsgSources, priority \in MsgPriorities,
          pgn \in MsgPgns, data \in MsgPayloads :
         /\ mobj' = Message(source, priority, pgn, data)
         /\ mres' = Result("init", data, "none", <<>>)
    /\ UNCHANGED <<canVars, nameVars, nodeVars, devVars>>

\* msg.pgn = ..., msg.destination = ..., msg.data = ...: attribute assignments,
\* as the encoders and the receive path make them
AssignAttribute ==
    /\ \/ \E pgn \in MsgPgns : mobj' = [mobj EXCEPT !.pgn = pgn]
       \/ \E d \in MsgDestinations : mobj' = [mobj EXCEPT !.destination = d]
       \/ \E data \in MsgPayloads :
             mobj' = [mobj EXCEPT !.has_data = TRUE, !.data = data,
                                  !.data_len = Len(data)]
    /\ mres' = Result("assign", <<>>, "none", <<>>)
    /\ UNCHANGED <<canVars, nameVars, nodeVars, devVars>>

\* msg.is_valid()
IsValid ==
    /\ mres' = is_valid(mobj)
    /\ UNCHANGED <<mobj, canVars, nameVars, nodeVars, devVars>>

\* msg.check_destination()
CheckDestination ==
    /\ mobj' = check_destination(mobj)
    /\ mres' = Result("check_destination", <<>>, "none", <<>>)
    /\ UNCHANGED <<canVars, nameVars, nodeVars, devVars>>

\* parse_n2k_charger_status(set_n2k_charger_status(data))
ChargerStatusRoundTrip ==
    /\ \E data \in ChargerStatusRecords :
         \E e \in {set_n2k_charger_status(data)} :
           /\ mobj' = e.msg
           /\ mres' = IF e.raised # "none"
                      THEN Result("charger_status", data, e.raised, <<>>)
                      ELSE [parse_n2k_charger_status(e.msg) EXCEPT
                              !.op = "charger_status", !.arg = data]
    /\ UNCHANGED <<canVars, nameVars, nodeVars, devVars>>

\* msg = set_n2k_<pgn>(data) of an encoder that has no size check
EncodeMessage ==
    /\ \/ \E data \in
              [instance : {0, 3}, fluid_type : {0, 1}, level : {0, 50}, capacity : {100}] :
            \E e \in {set_n2k_fluid_level(data)} :
              /\ mobj' = e.msg
              /\ mres' = Result("set_n2k_fluid_level", data, e.raised, <<>>)
       \/ \E data \in
              [sid : {1}, windlass_identifier : {0}, rode_counter_value : {0, 25},
               windlass_line_speed : {1}, windlass_motion_status : {0, 1},
               rode_type_status : {0, 1}, anchor_docking_status : {0, 1},
               windlass_operating_events : {0}] :
            \E e \in {set_n2k_anchor_windlass_operating_status(data)} :
              /\ mobj' = e.msg
              /\ mres' = Result("set_n2k_anchor_windlass_operating_status",
                                data, e.raised, <<>>)
       \/ \E data \in
              [sid : {1}, wind_speed : {0, 10}, wind_angle : {0, 3},
               wind_reference : {0, 2, 4}] :
            \E e \in {set_n2k_wind_speed(data)} :
              /\ mobj' = e.msg
              /\ mres' = Result("set_n2k_wind_speed", data, e.raised, <<>>)
       \/ \E data \in
              [sid : {1}, source : {0, 1, 8}, days_since_1970 : {20000}, variation : {0, 1}] :
            \E e \in {set_n2k_magnetic_variation(data)} :
              /\ mobj' = e.msg
              /\ mres' = Result("set_n2k_magnetic_variation", data, e.raised, <<>>)
       \/ \E data \in
              [charger_instance : {0}, battery_instance : {1}, enable : {0, 1},
               charge_current_limit : {100}, charger_mode : {0, 3},
               charging_algorithm : {0, 1}, over_charge_enable : {0, 1},
               equalization_enabled : {0}, battery_temperature : {0, 2},
               equalization_time_remaining : {0}] :
            \E e \in {set_n2k_charger_configuration_status(data)} :
              /\ mobj' = e.msg
              /\ mres' = Result("set_n2k_charger_configuration_status",
                                data, e.raised, <<>>)
    /\ UNCHANGED <<canVars, nameVars, nodeVars, devVars>>

\* msg = set_n2k_route_waypoint_information(data) or
\* msg = set_n2k_waypoint_list(data); for ValueError the result holds <<i>>,
\* the number the text of the exception names
EncodeWaypoints ==
    /\ \/ \E data \in RouteWaypointInformationRecords :
            \E e \in {set_n2k_route_waypoint_information(data)} :
              /\ mobj' = e.msg
              /\ mres' = Result("set_n2k_route_waypoint_information", data,
                                e.raised,
                                IF e.raised = "ValueError" THEN <<e.i>> ELSE <<>>)
       \/ \E data \in WaypointListRecords :
            \E e \in {set_n2k_waypoint_list(data)} :
              /\ mobj' = e.msg
              /\ mres' = Result("set_n2k_waypoint_list", data, e.raised,
                                IF e.raised = "ValueError" THEN <<e.i>> ELSE <<>>)
    /\ UNCHANGED <<canVars, nameVars, nodeVars, devVars>>

\* one test of tests/test_message.py: add a value to an empty Message and
\* read it back at index 0
IntegerRoundTrip ==
    /\ \E f \in IntegerFields : \E val \in IntegerValues(f) :
         \E e \in {add_then_get(f.add, f.get, val)} :
           /\ mobj' = e.msg
           /\ mres' = [op |-> "add_then_get", arg |-> [field |-> f, val |-> val],
                       raised |-> e.raised, value |-> e.value, index |-> e.index]
    /\ UNCHANGED <<canVars, nameVars, nodeVars, devVars>>

\* an unavailable value is added to an empty Message, or a field of all-ones
\* bytes is read
Unavailable ==
    /\ \E n \in 1..4, precision \in {"0.01", "1"} :
         \/ \E e \in {encode_udouble(n, N2K_DOUBLE_NA, precision)} :
              /\ mobj' = e.msg
              /\ mres' = Result("encode_udouble", n, e.raised, <<>>)
         \/ \E e \in {decode_udouble(n, AllOnes(n), precision)} :
              /\ mobj' = e.msg
              /\ mres' = Result("decode_udouble", n, e.raised, e.value)
    /\ UNCHANGED <<canVars, nameVars, nodeVars, devVars>>

NextMsg ==
    \/ NewMessage \/ AssignAttribute \/ IsValid \/ CheckDestination
    \/ ChargerStatusRoundTrip \/ EncodeMessage \/ EncodeWaypoints
    \/ IntegerRoundTrip \/ Unavailable

SpecMsg == InitMsg /\ [][NextMsg]_vars

\* --- the node's internal device and its handlers ---------------------------
\* node.n2k_source = source, by the owner of the node
AssignSource ==
    /\ \E source \in NodeSources : n2k_source' = source
    /\ res' = Result("n2k_source", <<>>, "none", <<>>)
    /\ UNCHANGED <<node, buf, sent, hist, now, stamp, canVars, nameVars, msgVars>>

\* node.update_address_claim_end_source()
UpdateAddressClaimEndSource ==
    /\ node' = update_address_claim_end_source(node, n2k_source)
    /\ res' = Result("update_address_claim_end_source", <<>>, "none", <<>>)
    /\ UNCHANGED <<nodeVars, canVars, nameVars, msgVars>>

\* node.set_product_information(name, firmware_version, model_version,
\* model_serial_code)
SetProductInformation ==
    /\ \E a \in ProductStrings, b \in ProductStrings,
          c \in ProductStrings, d \in ProductStrings :
         /\ node' = set_product_information(node, a, b, c, d)
         /\ res' = Result("set_product_information", <<a, b, c, d>>, "none", <<>>)
    /\ UNCHANGED <<nodeVars, canVars, nameVars, msgVars>>

\* node.attach_msg_handler(h)
AttachMsgHandler ==
    /\ \E h \in MsgHandlers :
         /\ node' = attach_msg_handler(node, h)
         /\ res' = Result("attach_msg_handler", h, "none", <<>>)
    /\ UNCHANGED <<nodeVars, canVars, nameVars, msgVars>>

\* node.detach_msg_handler(h)
DetachMsgHandler ==
    /\ \E h \in MsgHandlers : \E r \in {detach_msg_handler(node, h)} :
         /\ node' = r.node
         /\ res' = Result("detach_msg_handler", h, r.raised, <<>>)
    /\ UNCHANGED <<nodeVars, canVars, nameVars, msgVars>>

\* node.on_message_received(msg) for a frame that completes a message: res
\* holds the message delivered and the handle_msg calls per handler
Deliver ==
    /\ \E msg \in DeliveredFrames : \E o \in {on_message_received(buf, msg)} :
         /\ o.delivered # <<>>
         /\ buf' = o.buf
         /\ res' = Result("on_message_received", o.delivered[1], "none",
                          <<handle_msg_calls(node, o.delivered[1])>>)
    /\ UNCHANGED <<node, n2k_source, sent, hist, now, stamp, canVars, nameVars, msgVars>>

InitDev ==
    /\ NodeIdle
    /\ NameIdle /\ NameStart
    /\ CanIdle /\ CanStart
    /\ MsgIdle
    /\ DevIdle

NextDev ==
    \/ AssignSource \/ UpdateAddressClaimEndSource \/ SetProductInformation
    \/ AttachMsgHandler \/ DetachMsgHandler \/ Deliver

SpecDev == InitDev /\ [][NextDev]_vars

\* --- the pending product and configuration information ---------------------
\* millis() moves on
Advance ==
    /\ \E t \in PendingTimes : t > now /\ now' = t
    /\ UNCHANGED <<node, res, buf, n2k_source, sent, hist, stamp, canVars, nameVars, msgVars>>

\* node.n2k_source = source while nothing is pending
AssignSourceIdle ==
    /\ node.pending_product_information = <<>>
    /\ node.pending_configuration_information = <<>>
    /\ AssignSource

\* node.set_pending_..., node.clear_pending_... and node.query_pending_...
\* for the product and for the configuration information
SetPending ==
    /\ \/ /\ node' = set_pending_product_information(node, n2k_source, now)
          /\ res' = Result("set_pending_product_information", <<>>, "none", <<>>)
       \/ /\ node' = set_pending_configuration_information(node, n2k_source, now)
          /\ res' = Result("set_pending_configuration_information", <<>>, "none", <<>>)
    /\ UNCHANGED <<nodeVars, canVars, nameVars, msgVars>>

ClearPending ==
    /\ \/ /\ node' = clear_pending_product_information(node)
          /\ res' = Result("clear_pending_product_information", <<>>, "none", <<>>)
       \/ /\ node' = clear_pending_configuration_information(node)
          /\ res' = Result("clear_pending_configuration_information", <<>>, "none", <<>>)
    /\ UNCHANGED <<nodeVars, canVars, nameVars, msgVars>>

QueryPending ==
    /\ \/ res' = Result("query_pending_product_information", <<>>, "none",
                        <<query_pending_product_information(node, now)>>)
       \/ res' = Result("query_pending_configuration_information", <<>>, "none",
                        <<query_pending_configuration_information(node, now)>>)
    /\ UNCHANGED <<node, nodeVars, canVars, nameVars, msgVars>>

NextPending ==
    \/ Advance \/ AssignSourceIdle \/ SetPending \/ ClearPending \/ QueryPending

SpecPending == InitDev /\ [][NextPending]_vars


\* --- pure functions: the PGN lists, the binary status, the flag classes ------

\* N2kOnOff.Unavailable
N2kOnOff_Unavailable == 3

\* ~v on 64 bits
BvNot(v) == [i \in Bit64 |-> 1 - v[i]]

\* n2k_reset_binary_status(): 0xFFFFFFFFFFFFFFFF
n2k_reset_binary_status == [i \in Bit64 |-> 1]

\* n2k_get_status_on_binary_status(bank_status, item_index)
n2k_get_status_on_binary_status(bank_status, item_index) ==
    LET index == item_index - 1
    IN  IF index > 27 THEN N2kOnOff_Unavailable
        ELSE BvToInt(BvAnd(BvShr(bank_status, 2 * index), BvOfInt(3)))

\* a faulty variant of n2k_set_status_binary_on_status: the old status of the
\* item is not masked out
n2k_set_status_binary_on_status_nomask(bank_status, item_status, item_index) ==
    LET index == item_index - 1
    IN  IF index > 27 THEN bank_status
        ELSE BvOr(bank_status, BvShl(BvOfInt(item_status), 2 * index))

\* n2k_set_status_binary_on_status(bank_status, item_status, item_index)
n2k_set_status_binary_on_status(bank_status, item_status, item_index) ==
    LET index == item_index - 1
        mask == BvNot(BvShl(BvOfInt(3), 2 * index))
    IN  IF index > 27 THEN bank_status
        ELSE BvOr(BvAnd(bank_status, mask), BvShl(BvOfInt(item_status), 2 * index))

\* the flag classes and the number of flags each declares, from bit 0 up
flag_count ==
    [N2kDD206 |-> 16, N2kDD223 |-> 16, N2kDD475 |-> 2, N2kDD477 |-> 3,
     N2kDD478 |-> 1, N2kDD483 |-> 5, N2kTransmissionDiscreteStatus1 |-> 5]

\* the setter of the raw value (status, events, event): flag k is
\* (value >> k) & 1
flags_setter(cls, value) ==
    [k \in 0..(flag_count[cls] - 1) |-> (value \div (2 ^ k)) % 2]

\* the getter of the raw value: flag k << k, or-ed together
RECURSIVE flags_or(_, _)
flags_or(flags, k) ==
    IF k \notin DOMAIN flags THEN 0 ELSE flags[k] * (2 ^ k) + flags_or(flags, k + 1)

flags_getter(flags) == flags_or(flags, 0)

\* __init__(value): every class passes value to the setter, N2kDD475 passes 0
flags_init(cls, value) ==
    IF cls = "N2kDD475" THEN flags_setter(cls, 0) ELSE flags_setter(cls, value)

\* PGNs looked up: 0, one of each built-in list, and two of no built-in list
CheckedPgns == {0, 130306, 126996, 129285, 60928, 65240, 65280, 130816}

\* PGNs a caller may put in the custom lists
CustomPgns == {0, 129285, 60928, 65280}

\* bank statuses: all zero, all Unavailable, and On/Off/Error/Unavailable
\* in turn
BankStatuses ==
    {[i \in Bit64 |-> 0], n2k_reset_binary_status,
     [i \in Bit64 |-> IF (i \div 2) % 4 = 0 THEN (IF i % 2 = 0 THEN 1 ELSE 0)
                      ELSE IF (i \div 2) % 4 = 1 THEN 0
                      ELSE IF (i \div 2) % 4 = 2 THEN (IF i % 2 = 1 THEN 1 ELSE 0)
                      ELSE 1]}

ItemIndexes == {1, 2, 14, 27, 28, 29, 30}

\* raw values of flags: below and above 16 bits
RawValues == {0, 1, 2, 3, 5, 165, 21845, 43690, 65535, 131071}

\* Each function is applied once, to inputs drawn from the sets above.

\* node._check_known_message(pgn) on a node with the given custom lists
CheckKnownMessage ==
    /\ res.op = "init"
    /\ \E pgn \in CheckedPgns : \E cs \in SUBSET CustomPgns : \E cf \in SUBSET CustomPgns :
         res' = Result("_check_known_message", <<pgn, cs, cf>>, "none",
                       <<_check_known_message(pgn, cs, cf)>>)
    /\ UNCHANGED <<node, nodeVars, canVars, nameVars, msgVars>>

\* n2k_set_status_binary_on_status(bank_status, item_status, item_index)
SetBinaryStatus ==
    /\ res.op = "init"
    /\ \E b \in BankStatuses : \E s \in 0..3 : \E i \in ItemIndexes :
         res' = Result("n2k_set_status_binary_on_status", <<b, s, i>>, "none",
                       <<n2k_set_status_binary_on_status(b, s, i)>>)
    /\ UNCHANGED <<node, nodeVars, canVars, nameVars, msgVars>>

\* n2k_reset_binary_status(bank_status)
ResetBinaryStatus ==
    /\ res.op = "init"
    /\ \E b \in BankStatuses :
         res' = Result("n2k_reset_binary_status", <<b>>, "none",
                       <<n2k_reset_binary_status>>)
    /\ UNCHANGED <<node, nodeVars, canVars, nameVars, msgVars>>

\* cls(value): an object of a flag class, res.value holds its flags
ConstructFlags ==
    /\ res.op = "init"
    /\ \E cls \in DOMAIN flag_count : \E v \in RawValues :
         res' = Result("flags", <<cls, v>>, "none", <<flags_init(cls, v)>>)
    /\ UNCHANGED <<node, nodeVars, canVars, nameVars, msgVars>>

NextUtil == CheckKnownMessage \/ SetBinaryStatus \/ ResetBinaryStatus \/ ConstructFlags

SpecUtil == InitDev /\ [][NextUtil]_vars


\* --- the node with time passing between the frames -------------------------
\* the clock advances and the reassembler's tick() runs
Tick ==
    /\ \E dt \in TickSteps :
         /\ now + dt <= MaxNow
         /\ now' = now + dt
         /\ buf' = tick(buf, stamp, now + dt)
    /\ UNCHANGED <<n2k_source, sent, hist, stamp, canVars, nameVars, msgVars, devVars>>

OnMessageReceivedTimed ==
    /\ Len(hist) < MaxTimedCalls
    /\ \E msg \in Frames : Receive(msg)

NextTick == OnMessageReceivedTimed \/ Tick

SpecTick == Init /\ [][NextTick]_vars

\* --- the node with a provisioned address, and address claims on the bus ----
InitClaim ==
    /\ buf = N2kCANMessageBuffer(can_msg_buffer_size)
    /\ n2k_source \in ClaimSources
    /\ sent = <<>>
    /\ hist = <<>>
    /\ now = 0
    /\ stamp = [i \in 1..can_msg_buffer_size |-> 0]
    /\ NameIdle /\ NameStart
    /\ CanIdle /\ CanStart
    /\ MsgIdle
    /\ DevIdle

OnAddressClaimReceived ==
    /\ Len(hist) < MaxClaimCalls
    /\ \E msg \in AddressClaimFrames : Receive(msg)

NextClaim == OnAddressClaimReceived

SpecClaim == InitClaim /\ [][NextClaim]_vars

\* --- the CAN identifier codec ---------------------------------------------
InitCan ==
    /\ can_in \in CanInputs
    /\ CanStart
    /\ NameIdle /\ NameStart
    /\ NodeIdle
    /\ MsgIdle
    /\ DevIdle

\* header = can_id_to_n2k(id)
Decode ==
    /\ can_hdr = <<>> /\ enc = <<>>
    /\ can_hdr' = <<can_id_to_n2k(can_in.id)>>
    /\ UNCHANGED <<can_in, can_back, enc, nameVars, nodeVars, msgVars, devVars>>

\* n2k_id_to_can(header.priority, header.pgn, header.source, header.destination)
Encode ==
    /\ can_hdr # <<>> /\ can_back = <<>>
    /\ can_back' = <<n2k_id_to_can(can_hdr[1].priority, can_hdr[1].pgn,
                                   can_hdr[1].source, can_hdr[1].destination)>>
    /\ UNCHANGED <<can_in, can_hdr, enc, nameVars, nodeVars, msgVars, devVars>>

\* n2k_id_to_can(p, g, s, d) on arguments of the caller's
EncodeDirect ==
    /\ can_hdr = <<>> /\ enc = <<>>
    /\ \E p \in EncPriorities, g \in EncPgns, s \in EncSources, d \in EncDestinations :
          enc' = <<[priority |-> p, pgn |-> g, source |-> s, destination |-> d,
                    result |-> n2k_id_to_can(p, g, s, d)]>>
    /\ UNCHANGED <<can_in, can_hdr, can_back, nameVars, nodeVars, msgVars, devVars>>

NextCan == Decode \/ Encode \/ EncodeDirect

SpecCan == InitCan /\ [][NextCan]_vars

\* --- DeviceInformation ----------------------------------------------------
InitName ==
    /\ device_information \in DeviceSet
    /\ NameStart
    /\ CanIdle /\ CanStart
    /\ NodeIdle
    /\ MsgIdle
    /\ DevIdle

\* device_information.<field> = v
SetField ==
    /\ \E f \in DOMAIN FieldValues : \E v \in FieldValues[f] :
          device_information' = [device_information EXCEPT ![f] = v]
    /\ name_op' = "fields"
    /\ UNCHANGED <<name_reg, name_src, canVars, nodeVars, msgVars, devVars>>

\* value = device_information.name
GetName ==
    /\ name_reg' = <<name(device_information)>>
    /\ name_src' = <<device_information>>
    /\ name_op' = "get"
    /\ UNCHANGED <<device_information, canVars, nodeVars, msgVars, devVars>>

\* device_information.name = value, with a value read before
SetName ==
    /\ name_reg # <<>>
    /\ device_information' = name_setter(name_reg[1])
    /\ name_op' = "set"
    /\ UNCHANGED <<name_reg, name_src, canVars, nodeVars, msgVars, devVars>>

NextName == SetField \/ GetName \/ SetName

SpecName == InitName /\ [][NextName]_vars

---------------------------------------------------------------------------
(* Reading the history of calls.                                           *)

Hdr(h) == can_id_to_n2k(h.msg.arbitration_id)

IsFastPacket(h) ==
    _check_known_message(Hdr(h).pgn, custom_single_frame_messages,
                         custom_fast_packet_messages).fast_packet

\* the first frame of a Fast Packet message: frame counter 0
IsFirstFrame(h) ==
    IsFastPacket(h) /\ is_fast_packet_first_frame(h.msg.data[1])

\* the k-th continuation frame of the message that first frame h0 starts
IsContOf(h, h0, k) ==
    /\ IsFastPacket(h)
    /\ Hdr(h).pgn = Hdr(h0).pgn /\ Hdr(h).source = Hdr(h0).source
    /\ h.msg.data[1] = h0.msg.data[1] + k

\* any continuation frame of the (pgn, source) of first frame h0
IsContFrameOfKey(h, h0) ==
    /\ IsFastPacket(h) /\ ~is_fast_packet_first_frame(h.msg.data[1])
    /\ Hdr(h).pgn = Hdr(h0).pgn /\ Hdr(h).source = Hdr(h0).source

\* the frames a payload of L bytes takes: 6 bytes in the first, 7 in each other
FramesNeeded(L) == IF L <= 6 THEN 1 ELSE 1 + ((L - 6 + 6) \div 7)

\* bytes 2..7 of call i's frame, then bytes 1..7 of the n next calls' frames
RECURSIVE Concatenated(_, _)
Concatenated(i, n) ==
    IF n = 0 THEN SubSeq(hist[i].msg.data, 3, 8)
    ELSE Concatenated(i, n - 1) \o Tail(hist[i + n].msg.data)

\* the payload of a delivered message: the first data_len bytes of its data
Payload(m) ==
    SubSeq(m.data, 1, IF m.data_len < Len(m.data) THEN m.data_len ELSE Len(m.data))

\* calls i .. i+N-1 are a first frame that got a slot, followed by all its
\* continuation frames in consecutive sequence-counter order
CompleteStreamAt(i) ==
    /\ i \in DOMAIN hist
    /\ IsFirstFrame(hist[i]) /\ hist[i].found
    /\ LET N == FramesNeeded(hist[i].msg.data[2])
       IN  /\ i + N - 1 <= Len(hist)
           /\ \A k \in 1..(N - 1) : IsContOf(hist[i + k], hist[i], k)

\* exactly one message is delivered in calls i .. i+N-1, by the last of them,
\* and its payload is the concatenation truncated to L bytes
DeliveredCorrectlyAt(i) ==
    LET L == hist[i].msg.data[2]
        N == FramesNeeded(L)
        last == hist[i + N - 1]
    IN  /\ \A k \in 0..(N - 2) : hist[i + k].delivered = <<>>
        /\ Len(last.delivered) = 1
        /\ last.delivered[1].pgn = Hdr(hist[i]).pgn
        /\ last.delivered[1].source = Hdr(hist[i]).source
        /\ Payload(last.delivered[1]) = SubSeq(Concatenated(i, N - 1), 1, L)

\* the frame counters 1..N-1 with one left out, or with two neighbours swapped
Damaged(N) ==
    LET ord == [k \in 1..(N - 1) |-> k]
    IN  {SubSeq(ord, 1, k - 1) \o SubSeq(ord, k + 1, N - 1) : k \in 1..(N - 1)}
        \cup {[ord EXCEPT ![k] = ord[k + 1], ![k + 1] = ord[k]] : k \in 1..(N - 2)}

\* calls i+1 .. j-1 are the continuation frames of first frame i, one of them
\* dropped or two neighbours swapped, and call j is the next first frame of
\* the same (pgn, source)
DamagedStream(i, j) ==
    /\ i \in DOMAIN hist /\ j \in DOMAIN hist /\ i < j
    /\ IsFirstFrame(hist[i]) /\ hist[i].found
    /\ IsFirstFrame(hist[j])
    /\ Hdr(hist[j]).pgn = Hdr(hist[i]).pgn /\ Hdr(hist[j]).source = Hdr(hist[i]).source
    /\ \A t \in (i + 1)..(j - 1) : IsContFrameOfKey(hist[t], hist[i])
    /\ [t \in 1..(j - i - 1) |-> hist[i + t].msg.data[1] - hist[i].msg.data[1]]
         \in Damaged(FramesNeeded(hist[i].msg.data[2]))

InUse(b) == {i \in DOMAIN b : ~b[i].free_msg}

Full(b) == InUse(b) = DOMAIN b

\* the call that a step adds to the history
Called == Len(hist') = Len(hist) + 1
LastCall == hist'[Len(hist')]

---------------------------------------------------------------------------
(* Claims.                                                                 *)

\* C1: a Fast Packet first frame followed by all its continuation frames in
\* consecutive sequence-counter order delivers exactly one message, on the
\* frame that completes the announced length L, whose payload is bytes 2..7
\* of the first frame and bytes 1..7 of each continuation frame, cut to L.
C1_ReassemblyDelivers ==
    \A i \in DOMAIN hist : CompleteStreamAt(i) => DeliveredCorrectlyAt(i)

\* C2: with one continuation frame dropped, or two adjacent ones swapped, no
\* message is delivered for the stream, and the next first frame of the same
\* (pgn, source) starts a reassembly that is delivered correctly.
C2_DamagedStreamThenFresh ==
    \A i \in DOMAIN hist : \A j \in DOMAIN hist :
        (DamagedStream(i, j) /\ CompleteStreamAt(j))
            => /\ \A t \in i..(j - 1) : hist[t].delivered = <<>>
               /\ DeliveredCorrectlyAt(j)

\* C3: the buffer never holds two slots in use for one (pgn, source).
C3_OneSlotPerKey ==
    \A i \in DOMAIN buf : \A j \in DOMAIN buf :
        (i # j /\ ~buf[i].free_msg /\ ~buf[j].free_msg)
            => ~(buf[i].n2k_msg.pgn = buf[j].n2k_msg.pgn
                 /\ buf[i].n2k_msg.source = buf[j].n2k_msg.source)

\* the 64 bit value of 8 bytes, least significant byte first
BytesToBv(d) == [i \in Bit64 |-> (d[(i \div 8) + 1] \div (2 ^ (i % 8))) % 2]

\* a < b as 64 bit unsigned integers
BvLess(a, b) ==
    \E i \in Bit64 : a[i] < b[i] /\ \A j \in Bit64 : j > i => a[j] = b[j]

\* the next candidate address: downwards, from 0 on to 251
NextCandidate(x) == IF x > 0 THEN x - 1 ELSE 251

\* the call just made received an ISO Address Claim for the node's own address
ClaimForOwnAddress ==
    /\ Called
    /\ Hdr(LastCall).pgn = IsoAddressClaim
    /\ Hdr(LastCall).source = n2k_source

\* C4: an ISO Address Claim from the node's own address X with a numerically
\* lower NAME moves the node to the next candidate address and makes it send
\* its own claim from there; with a higher NAME the node keeps X.
C4_AddressClaimContention ==
    [][ClaimForOwnAddress =>
          IF BvLess(BytesToBv(LastCall.msg.data), name(device_information))
          THEN /\ n2k_source' = NextCandidate(n2k_source)
               /\ n2k_source' \notin {254, 255}
               /\ Len(sent') = Len(sent) + 1
               /\ Hdr(sent'[Len(sent')]).pgn = IsoAddressClaim
               /\ Hdr(sent'[Len(sent')]).source = n2k_source'
          ELSE n2k_source' = n2k_source]_vars

C6_DecodeFields ==
    can_hdr # <<>> =>
        LET h == can_hdr[1]
            c == can_in
        IN  /\ h.priority = c.prio
            /\ h.source = c.src
            /\ c.pf < 240 => /\ h.destination = c.ps
                             /\ h.pgn = c.dp * 65536 + c.pf * 256
                             /\ h.pgn % 256 = 0
            /\ c.pf >= 240 => /\ h.destination = 255
                              /\ h.pgn = c.dp * 65536 + c.pf * 256 + c.ps

C6_Witness ==
    can_hdr # <<>> /\ can_in.pf = 240 /\ can_in.ps = 5 /\ can_in.edp = 1
    /\ can_in.dp = 1

\* a pgn in PDU1 format with a low byte that is not zero
InvalidPdu1(pgn) == (pgn \div 256) % 256 < 240 /\ pgn % 256 # 0

C9_SingleFrameDelivered ==
    \A i \in DOMAIN hist :
        ~IsFastPacket(hist[i]) =>
            /\ Len(hist[i].delivered) = 1
            /\ hist[i].delivered[1].pgn = Hdr(hist[i]).pgn
            /\ hist[i].delivered[1].source = Hdr(hist[i]).source
            /\ hist[i].delivered[1].data = hist[i].msg.data

\* C10: the buffer keeps its configured number of slots, so no more than
\* that many are in use; a Fast Packet first frame that arrives when every
\* slot is in use changes no slot and delivers nothing.
C10_FullBufferDropsFirstFrame ==
    [][/\ DOMAIN buf' = 1..can_msg_buffer_size
       /\ Cardinality(InUse(buf')) <= can_msg_buffer_size
       /\ (Called /\ Full(buf) /\ IsFirstFrame(LastCall))
             => /\ buf' = buf
                /\ LastCall.delivered = <<>>]_vars

C10_Witness ==
    /\ Full(buf)
    /\ \E i \in DOMAIN hist :
          /\ IsFirstFrame(hist[i]) /\ ~hist[i].found
          /\ \A j \in 1..(i - 1) : IsFirstFrame(hist[j]) /\ hist[j].found

\* the call just made received a Fast Packet continuation frame (frame
\* counter not 0) while no slot in use held its (pgn, source)
OrphanFrame ==
    /\ Called
    /\ IsFastPacket(LastCall) /\ ~IsFirstFrame(LastCall)
    /\ ~\E i \in DOMAIN buf :
          /\ ~buf[i].free_msg
          /\ buf[i].n2k_msg.pgn = Hdr(LastCall).pgn
          /\ buf[i].n2k_msg.source = Hdr(LastCall).source

\* C11: a Fast Packet continuation frame for which no slot in use matches
\* its (pgn, source) is discarded: no slot is allocated or modified and no
\* message is delivered.
C11_OrphanDiscarded ==
    [][OrphanFrame =>
          /\ buf' = buf
          /\ LastCall.delivered = <<>>
          /\ ~LastCall.raised]_vars

\* an orphan frame arrived while another (pgn, source) had a slot in use
C11_Witness ==
    \E i \in DOMAIN hist :
        /\ IsFastPacket(hist[i]) /\ ~IsFirstFrame(hist[i])
        /\ ~hist[i].found
        /\ i > 1 /\ InUse(buf) # {}

\* the step just taken was a tick
Ticked == now' > now

C19_IsValid ==
    mres.op = "is_valid" =>
        /\ mres.raised = "none"
        /\ mres.value = <<mobj.pgn # 0 /\ mobj.has_data /\ Len(mobj.data) > 0>>

\* C20: check_destination sets destination to 255 when pgn & 0xFF != 0 and
\* leaves it as it was otherwise; pgn, source, priority and data stay.
C20_CheckDestination ==
    [][(mres'.op = "check_destination") =>
          /\ mobj'.destination = IF mobj.pgn % 256 # 0 THEN 255 ELSE mobj.destination
          /\ mobj'.pgn = mobj.pgn /\ mobj'.source = mobj.source
          /\ mobj'.priority = mobj.priority
          /\ mobj'.has_data = mobj.has_data /\ mobj'.data = mobj.data
          /\ mobj'.data_len = mobj.data_len]_vars

\* check_destination ran on a PDU1 message addressed to one device and kept
\* the address
C20_Witness ==
    /\ mres.op = "check_destination"
    /\ mobj.pgn = 59904 /\ mobj.destination = 5 /\ mobj.has_data

\* the field a primitive writes or reads: width and signedness
FieldOf(method) ==
    CASE method \in {"add_byte_uint", "get_byte_uint"} -> "byte_uint"
      [] method \in {"add_2_byte_uint", "get_2_byte_uint"} -> "2_byte_uint"
      [] method \in {"add_2_byte_udouble", "get_2_byte_udouble"} -> "2_byte_udouble"
      [] method \in {"add_2_byte_double", "get_2_byte_double"} -> "2_byte_double"
      [] method \in {"add_4_byte_udouble", "get_4_byte_udouble"} -> "4_byte_udouble"
      [] method \in {"add_4_byte_double", "get_4_byte_double"} -> "4_byte_double"
      [] OTHER -> method

\* encoder and decoder use the same width, signedness and precision, field
\* by field
SameLayout(sc, pc) ==
    /\ Len(sc) = Len(pc)
    /\ \A k \in DOMAIN sc :
          /\ FieldOf(sc[k].method) = FieldOf(pc[k].method)
          /\ sc[k].precision = pc[k].precision

\* C13: decoding what the encoder made of a record gives the record back,
\* and both sides use the same width, signedness and precision per field
\* (checked on PGN 127507, Charger Status).
C13_CodecRoundTrip ==
    mres.op = "charger_status" =>
        /\ mres.raised = "none"
        /\ mres.value = <<mres.arg>>
        /\ SameLayout(set_n2k_charger_status(mres.arg).calls,
                      parse_n2k_charger_status_calls)

\* the PGN each encoder is for (its docstring), and the priority of a PGN
\* (the "prio:" notes of class PGN, the PGN table)
EncodedPgn ==
    ("set_n2k_fluid_level" :> 127505) @@
    ("set_n2k_route_waypoint_information" :> 129285) @@
    ("set_n2k_anchor_windlass_operating_status" :> 128777) @@
    ("set_n2k_wind_speed" :> 130306)
CanonicalPriority == (127505 :> 6) @@ (129285 :> 3) @@ (130306 :> 2)

\* C14: an encoder returns a message whose pgn is the PGN it encodes (never
\* 0) and whose priority is that PGN's canonical priority (129285: 3,
\* 127505: 6, 130306: 2); the size check of a waypoint encoder aside.
C14_EncoderPgnPriority ==
    (mres.op \in DOMAIN EncodedPgn /\ mres.raised # "ValueError") =>
        /\ mres.raised = "none"
        /\ mobj.pgn = EncodedPgn[mres.op] /\ mobj.pgn # 0
        /\ mobj.pgn \in DOMAIN CanonicalPriority =>
               mobj.priority = CanonicalPriority[mobj.pgn]

\* the bytes of the payload that holds the first k waypoints of data: the
\* fields before the list, then ID, name as a variable string (2 bytes and
\* the characters), latitude and longitude per waypoint
RECURSIVE EncodedLen(_, _, _)
EncodedLen(op, data, k) ==
    IF k = 0
    THEN IF op = "set_n2k_route_waypoint_information"
         THEN 2 + 2 + 2 + 2 + 1 + (2 + Len(data.route_name)) + 1
         ELSE 2 + 2 + 2 + 2 + 1 + 1
    ELSE EncodedLen(op, data, k - 1) + 2 + 4 + 4 + 2 +
         Len(IF op = "set_n2k_route_waypoint_information"
             THEN data.waypoints[k].name ELSE name_or_nul(data.waypoints[k]))

\* the largest number of leading waypoints whose encoding fits
LargestFit(op, data) ==
    CHOOSE k \in 0..Len(data.waypoints) :
        /\ EncodedLen(op, data, k) <= max_data_len
        /\ \A j \in (k + 1)..Len(data.waypoints) :
              EncodedLen(op, data, j) > max_data_len

\* C15: a waypoint encoder either returns a message of at most 223 bytes of
\* payload, or fails before adding any byte with an error that names i, the
\* largest number of leading waypoints whose encoding fits in 223 bytes.
C15_WaypointsFitOrFail ==
    mres.op \in {"set_n2k_route_waypoint_information", "set_n2k_waypoint_list"} =>
        \/ /\ mres.raised = "none"
           /\ mobj.data_len = EncodedLen(mres.op, mres.arg, Len(mres.arg.waypoints))
           /\ mobj.data_len <= max_data_len
        \/ /\ mres.raised = "ValueError"
           /\ mres.value = <<LargestFit(mres.op, mres.arg)>>
           /\ mobj.data_len = 0

\* C16: in a byte that holds an enumeration or flag field narrower than the
\* byte, the encoder writes every unused bit as 1: bits 3..7 beside the wind
\* reference, bits 4..7 beside the source of the magnetic variation, bits
\* 2..7 beside the charger's enable field.
C16_ReservedBitsSet ==
    /\ mres.op = "set_n2k_wind_speed" =>
          /\ mres.raised = "none"
          /\ BitAnd(set_n2k_wind_speed(mres.arg).calls[4].value, 248) = 248
    /\ mres.op = "set_n2k_magnetic_variation" =>
          /\ mres.raised = "none"
          /\ BitAnd(set_n2k_magnetic_variation(mres.arg).calls[2].value, 240) = 240
    /\ mres.op = "set_n2k_charger_configuration_status" =>
          /\ mres.raised = "none"
          /\ BitAnd(set_n2k_charger_configuration_status(mres.arg).calls[3].value,
                    252) = 252

\* C17: for the integer fields of 1, 2, 3, 4 and 8 bytes, adding a value
\* (the extremes included) to an empty Message and reading it back at index
\* 0 returns the value, and the read advances the index by the width.
C17_IntegerRoundTrip ==
    mres.op = "add_then_get" =>
        /\ mres.raised = "none"
        /\ mres.value = <<mres.arg.val>>
        /\ mres.index = mres.arg.field.width

\* C18: for an unsigned width N, encoding the unavailable value writes N
\* bytes of all ones, and decoding N bytes of all ones returns the
\* unavailable value, not a number.
C18_UnavailableAllOnes ==
    /\ mres.op = "encode_udouble" =>
          /\ mres.raised = "none"
          /\ mobj.has_data /\ mobj.data = AllOnes(mres.arg)
    /\ mres.op = "decode_udouble" =>
          /\ mres.raised = "none"
          /\ mres.value = <<N2K_DOUBLE_NA>>


\* C21: constructing a Message with a payload of 1 to 223 bytes stores the
\* payload and sets data_len to its length.
C21_PayloadStored ==
    (mres.op = "init" /\ Len(mres.arg) >= 1 /\ Len(mres.arg) <= max_data_len) =>
        /\ mobj.has_data
        /\ mobj.data = mres.arg
        /\ mobj.data_len = Len(mres.arg)


\* C22: product information with a string longer than 32 characters is
\* rejected with a ConfigError and the stored product information stays as
\* it was.
C22_TooLongRejected ==
    [][(/\ res'.op = "set_product_information"
        /\ \E k \in 1..4 : Len(res'.arg[k]) > MAX_N2K_MODEL_ID_LEN)
          => /\ res'.raised = "ConfigError"
             /\ node'.product_information = node.product_information]_vars

\* C24: for a delivered message every attached handler whose pgn is 0 or the
\* message's pgn is called exactly once, every other attached handler is not
\* called, and a detached handler is no longer among the handlers, so it is
\* not called for later messages.
C24_HandlersInvoked ==
    [][/\ (res'.op = "detach_msg_handler" /\ res'.raised = "none")
            => res'.arg \notin node'.message_handlers
       /\ res'.op = "on_message_received"
            => /\ node' = node
               /\ DOMAIN res'.value[1] = node.message_handlers
               /\ \A h \in node.message_handlers :
                     res'.value[1][h] =
                         IF h.pgn \in {0, res'.arg.pgn} THEN 1 ELSE 0]_vars

\* a Wind Speed message was delivered to a node that holds the device list,
\* a handler for Wind Speed and one for another pgn; the handler for every
\* pgn is not attached
C24_Witness ==
    /\ res.op = "on_message_received" /\ res.arg.pgn = 130306
    /\ node.message_handlers =
          {[id |-> "device_list", pgn |-> 0], [id |-> "b", pgn |-> 130306],
           [id |-> "c", pgn |-> 129285]}
    /\ res.value[1][[id |-> "b", pgn |-> 130306]] = 1
    /\ res.value[1][[id |-> "c", pgn |-> 129285]] = 0

\* C25: product information set pending at time t by a node with address s
\* is due at t + 187 + 8s (configuration information at t + 187 + 10s); a
\* query answers false up to and including that time and true later, until
\* the pending time is cleared, and a query changes nothing.
C25_PendingInformation ==
    [][/\ node'.pending_product_information # <<>> =>
             \E t \in PendingTimes :
                 /\ t <= now'
                 /\ node'.pending_product_information = <<t + 187 + 8 * n2k_source'>>
       /\ node'.pending_configuration_information # <<>> =>
             \E t \in PendingTimes :
                 /\ t <= now'
                 /\ node'.pending_configuration_information = <<t + 187 + 10 * n2k_source'>>
       /\ (res'.op = "query_pending_product_information" /\ now' = now) =>
             /\ node' = node
             /\ res'.value = <<node.pending_product_information # <<>>
                               /\ now > node.pending_product_information[1]>>
       /\ (res'.op = "query_pending_configuration_information" /\ now' = now) =>
             /\ node' = node
             /\ res'.value = <<node.pending_configuration_information # <<>>
                               /\ now > node.pending_configuration_information[1]>>
       /\ res'.op \notin {"set_pending_product_information",
                          "clear_pending_product_information"} =>
             node'.pending_product_information = node.pending_product_information
       /\ res'.op \notin {"set_pending_configuration_information",
                          "clear_pending_configuration_information"} =>
             node'.pending_configuration_information =
                 node.pending_configuration_information]_vars

\* the node with address 1 set the product information pending at time 0,
\* and the query one millisecond after 195 answers true
C25_Witness ==
    /\ res.op = "query_pending_product_information" /\ res.value = <<TRUE>>
    /\ n2k_source = 1 /\ now = 196
    /\ node.pending_product_information = <<195>>

CallsOfKeyAfter(i) ==
    {t \in (i + 1)..Len(hist) :
        /\ Hdr(hist[t]).pgn = Hdr(hist[i]).pgn
        /\ Hdr(hist[t]).source = Hdr(hist[i]).source}

\* the k-th of them
KthOfKey(i, k) ==
    CHOOSE t \in CallsOfKeyAfter(i) :
        Cardinality({u \in CallsOfKeyAfter(i) : u < t}) = k - 1

\* call i is a first frame that got a slot, and the next frames of its
\* (pgn, source), wherever they are among the later calls, are all its
\* continuation frames in order
OwnStreamAt(i) ==
    /\ i \in DOMAIN hist
    /\ IsFirstFrame(hist[i]) /\ hist[i].found
    /\ LET N == FramesNeeded(hist[i].msg.data[2])
       IN  /\ N > 1
           /\ Cardinality(CallsOfKeyAfter(i)) >= N - 1
           /\ \A k \in 1..(N - 1) : IsContOf(hist[KthOfKey(i, k)], hist[i], k)

\* bytes 2..7 of call i's frame, then bytes 1..7 of its n continuation frames
RECURSIVE OwnConcatenated(_, _)
OwnConcatenated(i, n) ==
    IF n = 0 THEN SubSeq(hist[i].msg.data, 3, 8)
    ELSE OwnConcatenated(i, n - 1) \o Tail(hist[KthOfKey(i, n)].msg.data)

\* the message of the stream that starts at call i is delivered by the call
\* of its last frame, with the stream's own payload, and by no earlier frame
OwnDeliveredAt(i) ==
    LET L == hist[i].msg.data[2]
        N == FramesNeeded(L)
        last == hist[KthOfKey(i, N - 1)]
    IN  /\ hist[i].delivered = <<>>
        /\ \A k \in 1..(N - 2) : hist[KthOfKey(i, k)].delivered = <<>>
        /\ Len(last.delivered) = 1
        /\ last.delivered[1].pgn = Hdr(hist[i]).pgn
        /\ last.delivered[1].source = Hdr(hist[i]).source
        /\ Payload(last.delivered[1]) = SubSeq(OwnConcatenated(i, N - 1), 1, L)

\* the streams that start at calls i and j have different (pgn, source) and
\* the second starts before the first has ended
Interleaved(i, j) ==
    /\ OwnStreamAt(i) /\ OwnStreamAt(j) /\ i < j
    /\ ~(Hdr(hist[i]).pgn = Hdr(hist[j]).pgn
         /\ Hdr(hist[i]).source = Hdr(hist[j]).source)
    /\ j < KthOfKey(i, FramesNeeded(hist[i].msg.data[2]) - 1)

\* C23: when the frames of two Fast Packet messages with different
\* (pgn, source) arrive interleaved, each stream in its own order, both
\* messages are delivered, each with its own payload.
C23_InterleavedDelivered ==
    \A i \in DOMAIN hist : \A j \in DOMAIN hist :
        Interleaved(i, j) => OwnDeliveredAt(i) /\ OwnDeliveredAt(j)

\* the other half of C23: a call never changes a slot in use for another
\* (pgn, source) than that of its frame
OtherSlotsUntouched ==
    [][Called =>
          \A s \in InUse(buf) :
              ~(buf[s].n2k_msg.pgn = Hdr(LastCall).pgn
                /\ buf[s].n2k_msg.source = Hdr(LastCall).source)
                  => buf'[s] = buf[s]]_vars

\* two interleaved streams were received
InterleavedReceived ==
    \E i \in DOMAIN hist : \E j \in DOMAIN hist : Interleaved(i, j)

\* C27: the call that receives the last frame of a Fast Packet stream
\* delivers the message and frees the slot of the stream: a first frame that
\* is complete by itself leaves the slots in use as they were, the last
\* continuation frame leaves one slot less in use.
C27_SlotFreedOnCompletion ==
    [][Called =>
          \A i \in DOMAIN hist' :
              (/\ CompleteStreamAt(i)'
               /\ i + FramesNeeded(hist'[i].msg.data[2]) - 1 = Len(hist'))
                  => /\ LastCall.delivered # <<>>
                     /\ Cardinality(InUse(buf')) =
                            IF FramesNeeded(hist'[i].msg.data[2]) = 1
                            THEN Cardinality(InUse(buf))
                            ELSE Cardinality(InUse(buf)) - 1]_vars


\* a PGN of a built-in single-frame list, of a built-in Fast Packet list
BuiltInSingleFrame(pgn) ==
    is_default_single_frame_message(pgn) \/ is_single_frame_system_message(pgn)

BuiltInFastPacket(pgn) ==
    \/ is_mandatory_fast_packet_message(pgn) \/ is_default_fast_packet_message(pgn)
    \/ is_fast_packet_system_message(pgn)

\* what C28 says of every PGN, whatever list it is in
KnownMessageBasics(pgn, cs, cf, r) ==
    /\ pgn = 0 => r = Known(FALSE, FALSE, FALSE)
    /\ r.system_message => r.known_message
    /\ r.fast_packet => r.known_message
    /\ (pgn # 0 /\ BuiltInSingleFrame(pgn)) => (r.known_message /\ ~r.fast_packet)
    /\ (pgn # 0 /\ BuiltInFastPacket(pgn)) => (r.known_message /\ r.fast_packet)
    /\ (~BuiltInSingleFrame(pgn) /\ ~BuiltInFastPacket(pgn)
        /\ pgn \notin cs /\ pgn \notin cf) => (~r.known_message /\ ~r.fast_packet)

\* C28, as stated: pgn 0 gives (False, False, False), system and fast_packet
\* imply known, the built-in lists win, a PGN in no list is neither known nor
\* fast_packet, and a PGN in custom_fast_packet_messages is fast_packet only
\* if it is in no built-in single-frame list and not in
\* custom_single_frame_messages.
C28_KnownMessageAsStated ==
    res.op = "_check_known_message" =>
        LET pgn == res.arg[1]
            cs == res.arg[2]
            cf == res.arg[3]
            r == res.value[1]
        IN  /\ KnownMessageBasics(pgn, cs, cf, r)
            /\ (pgn \in cf /\ r.fast_packet) =>
                   (~BuiltInSingleFrame(pgn) /\ pgn \notin cs)

\* C28, amended: the same, the last part for a PGN of
\* custom_fast_packet_messages that is in no built-in Fast Packet list; a PGN
\* of a built-in Fast Packet list is fast_packet whatever the custom lists
\* hold.
C28_KnownMessage ==
    res.op = "_check_known_message" =>
        LET pgn == res.arg[1]
            cs == res.arg[2]
            cf == res.arg[3]
            r == res.value[1]
        IN  /\ KnownMessageBasics(pgn, cs, cf, r)
            /\ (pgn \in cf /\ ~BuiltInFastPacket(pgn) /\ r.fast_packet) =>
                   (~BuiltInSingleFrame(pgn) /\ pgn \notin cs)

\* PGN 65280 is in custom_fast_packet_messages only and is reported as a
\* known Fast Packet message that is no system message
C28_Witness ==
    /\ res.op = "_check_known_message"
    /\ res.arg = <<65280, {60928}, {65280, 60928}>>
    /\ res.value = <<Known(TRUE, FALSE, TRUE)>>

\* C29: setting item i (1..28) of a bank status to s (0..3) makes item i read
\* s and leaves every other item as it was; with an index above 28 the
\* setter returns the bank status unchanged and the getter reads
\* Unavailable; every item of a reset bank status reads Unavailable.
C29_BinaryStatus ==
    /\ res.op = "n2k_set_status_binary_on_status" =>
        LET b == res.arg[1]
            s == res.arg[2]
            i == res.arg[3]
            new == res.value[1]
        IN  IF i \in 1..28
            THEN /\ n2k_get_status_on_binary_status(new, i) = s
                 /\ \A j \in (1..28) \ {i} :
                       n2k_get_status_on_binary_status(new, j) =
                           n2k_get_status_on_binary_status(b, j)
            ELSE /\ new = b
                 /\ n2k_get_status_on_binary_status(b, i) = 3
    /\ res.op = "n2k_reset_binary_status" =>
        \A j \in 1..28 : n2k_get_status_on_binary_status(res.value[1], j) = 3

\* item 28 of the all Unavailable bank status was set to Off
C29_Witness ==
    /\ res.op = "n2k_set_status_binary_on_status"
    /\ res.arg = <<n2k_reset_binary_status, 0, 28>>
    /\ n2k_get_status_on_binary_status(res.value[1], 28) = 0
    /\ n2k_get_status_on_binary_status(res.value[1], 27) = 3

\* C30: an object of a flag class made from the raw value v reads back v
\* masked to the flags the class declares, and each flag is the bit of v at
\* its position.
C30_FlagsRoundTrip ==
    res.op = "flags" =>
        LET cls == res.arg[1]
            v == res.arg[2]
            flags == res.value[1]
        IN  /\ flags_getter(flags) = v % (2 ^ flag_count[cls])
            /\ \A k \in DOMAIN flags : flags[k] = (v \div (2 ^ k)) % 2

============================================================================
